---- MODULE Spec2Model ----
(***************************************************************************)
(* Gesture-driven particle cloud: the five page scripts of the repository  *)
(* (script.js, the Box/Sphere module, the six-shape script, and the two    *)
(* Sphere/Cube scripts) modelled as one state machine.  `variant` selects  *)
(* the script that is loaded; every handler of that script is one action.  *)
(*                                                                         *)
(* Numbers are exact rationals [n |-> numerator, d |-> denominator] in     *)
(* lowest terms; IEEE rounding of the JavaScript numbers is not modelled.  *)
(* Math.random() is a draw from RandomValues, read from a periodic tape:   *)
(* one tape per page load, which every handler reads from its start.       *)
(* Cosines and sines are exact on quarter turns; the golden-spiral sphere  *)
(* is a table of rational unit vectors.                                    *)
(***************************************************************************)
EXTENDS Integers, Sequences, FiniteSets, TLC

(***************************************************************************)
(* Bounds of the model                                                     *)
(***************************************************************************)
\* particles in the cloud (the scripts use 4000 or 5000)
ParticleCount == 2
\* display frames explored
MaxFrames == 3
\* detector callbacks explored
MaxCallbacks == 3
\* shape selections explored
MaxSelects == 1
\* period of the tape of Math.random() draws
TapePeriod == 2
\* a frame is explored while the product of its operands' denominators is at
\* most this (exact arithmetic stays inside the model checker's integers)
MaxDenominator == 100000

(***************************************************************************)
(* Exact rational arithmetic                                               *)
(***************************************************************************)
Abs(i) == IF i < 0 THEN -i ELSE i

RECURSIVE GCD(_, _)
GCD(a, b) == IF b = 0 THEN a ELSE GCD(b, a % b)

\* the rational n/d in lowest terms with a positive denominator (d # 0)
R(n, d) ==
    LET g == GCD(Abs(n), Abs(d))
        s == IF d < 0 THEN -1 ELSE 1
    IN  [n |-> s * (n \div g), d |-> s * (d \div g)]

Z(i) == [n |-> i, d |-> 1]
Zero == Z(0)
One == Z(1)

LCM(a, b) == (a \div GCD(a, b)) * b

RAdd(a, b) ==
    LET l == LCM(a.d, b.d)
    IN  R(a.n * (l \div a.d) + b.n * (l \div b.d), l)

RNeg(a) == [n |-> -a.n, d |-> a.d]
RSub(a, b) == RAdd(a, RNeg(b))

RMul(a, b) ==
    LET g1 == GCD(Abs(a.n), b.d)
        g2 == GCD(Abs(b.n), a.d)
    IN  IF a.n = 0 \/ b.n = 0 THEN Zero
        ELSE [n |-> (a.n \div g1) * (b.n \div g2),
              d |-> (a.d \div g2) * (b.d \div g1)]

\* b # 0
RDiv(a, b) ==
    RMul(a, IF b.n < 0 THEN [n |-> -b.d, d |-> -b.n] ELSE [n |-> b.d, d |-> b.n])

RLt(a, b) ==
    LET l == LCM(a.d, b.d)
    IN  a.n * (l \div a.d) < b.n * (l \div b.d)
RLe(a, b) == a = b \/ RLt(a, b)
RGt(a, b) == RLt(b, a)
RGe(a, b) == RLe(b, a)
RMin(a, b) == IF RLt(b, a) THEN b ELSE a
RMax(a, b) == IF RLt(a, b) THEN b ELSE a
RAbs(a) == [n |-> Abs(a.n), d |-> a.d]

\* integer square root (floor), by bisection of lo..hi
RECURSIVE Bisect(_, _, _)
Bisect(k, lo, hi) ==
    IF lo >= hi THEN lo
    ELSE LET mid == (lo + hi + 1) \div 2
         IN  IF mid <= k \div mid THEN Bisect(k, mid, hi) ELSE Bisect(k, lo, mid - 1)
ISqrt(k) == IF k < 2 THEN k ELSE Bisect(k, 1, IF k < 46340 THEN k ELSE 46340)

\* Math.sqrt: exact on the squares of rationals, rounded down to a tenth
\* on every other argument
RSqrt(a) ==
    LET rn == ISqrt(a.n)
        rd == ISqrt(a.d)
    IN  IF rn * rn = a.n /\ rd * rd = a.d
        THEN [n |-> rn, d |-> rd]
        ELSE R(ISqrt((a.n * 100) \div a.d), 10)

(***************************************************************************)
(* Math.random(), trigonometry                                             *)
(***************************************************************************)
\* values a call of Math.random() may return (all lie in [0, 1))
RandomValues == {Zero, R(1, 2)}

\* a tape of draws: draw number k (from 0) is tape[k % TapePeriod]
Tapes == [0..(TapePeriod - 1) -> RandomValues]
Draw(tape, k) == tape[k % TapePeriod]

Floor(a) == a.n \div a.d

\* angles are measured in turns (1 turn = 2*PI); cosine and sine are exact on
\* the quarter turns and take the value of the quarter turn below otherwise
Quarter(turns) == Floor(RMul(Z(4), turns)) % 4
CosT(turns) == Z(<<1, 0, -1, 0>>[Quarter(turns) + 1])
SinT(turns) == Z(<<0, 1, 0, -1>>[Quarter(turns) + 1])

\* phi = Math.acos(c): cos(phi) = c, sin(phi) = sqrt(1 - c*c)
CosAcos(c) == c
SinAcos(c) == RSqrt(RSub(One, RMul(c, c)))

\* unit directions standing for the golden-spiral placement
\* phi = acos(1 - 2*(i + 0.5)/count), theta = PI*(1 + sqrt(5))*i, whose sines
\* and cosines are irrational: one rational point of the unit sphere per index
SpiralDirections ==
    << <<Zero, Zero, One>>, <<R(3, 5), R(4, 5), Zero>>, <<Z(-1), Zero, Zero>>,
       <<Zero, Z(-1), Zero>>, <<Zero, R(3, 5), R(-4, 5)>>, <<One, Zero, Zero>> >>
SpiralDirection(i) == SpiralDirections[(i % Len(SpiralDirections)) + 1]

\* a Float32Array(count * 3) filled from a function of the point index
Flat(count, point(_)) ==
    [k \in 1..(3 * count) |-> point((k - 1) \div 3)[((k - 1) % 3) + 1]]

\* new Float32Array(count * 3): all zero
ZeroArray(count) == [k \in 1..(3 * count) |-> Zero]

Scale3(s, p) == <<RMul(s, p[1]), RMul(s, p[2]), RMul(s, p[3])>>

(***************************************************************************)
(* Shape generators                                                        *)
(***************************************************************************)
\* script.js generateSpherePositions(radius = 150)
generateSpherePositions_script(count) ==
    Flat(count, LAMBDA i : Scale3(Z(150), SpiralDirection(i)))

\* one point of a cube face; script.js numbering of the faces
FacePoint_script(face, u, v, halfSize) ==
    CASE face = 0 -> <<u, v, halfSize>>
      [] face = 1 -> <<u, v, RNeg(halfSize)>>
      [] face = 2 -> <<u, halfSize, v>>
      [] face = 3 -> <<u, RNeg(halfSize), v>>
      [] face = 4 -> <<halfSize, u, v>>
      [] OTHER    -> <<RNeg(halfSize), u, v>>

\* script.js generateCubePositions(size = 200): faces 0..5 take
\* particlesPerFace slots each, in order, two draws per slot; the slots past
\* 6 * particlesPerFace are never written and keep the array's initial 0
generateCubePositions_script(count, tape) ==
    LET size == Z(200)
        halfSize == RDiv(size, Z(2))
        particlesPerFace == count \div 6
        point(k) ==
            IF k < 6 * particlesPerFace
            THEN FacePoint_script(k \div particlesPerFace,
                     RMul(RSub(Draw(tape, 2 * k), R(1, 2)), size),
                     RMul(RSub(Draw(tape, 2 * k + 1), R(1, 2)), size),
                     halfSize)
            ELSE <<Zero, Zero, Zero>>
    IN  Flat(count, point)

\* six-shape script generateSpherePositions(positions), radius 2
generateSpherePositions_shapes(count) ==
    Flat(count, LAMBDA i : Scale3(Z(2), SpiralDirection(i)))

\* six-shape script generateCubePositions(positions): faces +X -X +Y -Y +Z -Z,
\* the last face takes every slot that is left
generateCubePositions_shapes(count, tape) ==
    LET size == Z(2)
        halfSize == RDiv(size, Z(2))
        particlesPerFace == count \div 6
        f(k) == IF k < 5 * particlesPerFace THEN k \div particlesPerFace ELSE 5
        sign(k) == IF f(k) % 2 = 0 THEN halfSize ELSE RNeg(halfSize)
        u(k) == RMul(RSub(Draw(tape, 2 * k), R(1, 2)), size)
        v(k) == RMul(RSub(Draw(tape, 2 * k + 1), R(1, 2)), size)
        point(k) ==
            CASE f(k) \in {0, 1} -> <<sign(k), u(k), v(k)>>
              [] f(k) \in {2, 3} -> <<u(k), sign(k), v(k)>>
              [] OTHER           -> <<u(k), v(k), sign(k)>>
    IN  Flat(count, point)

\* (x^2 + 9/4*y^2 + z^2 - 1)^3 - x^2*z^3 - 9/80*y^2*z^3
heartValue(x, y, z) ==
    LET x2 == RMul(x, x)
        y2 == RMul(y, y)
        z2 == RMul(z, z)
        term1 == RSub(RAdd(RAdd(x2, RMul(R(9, 4), y2)), z2), One)
        term1Cubed == RMul(RMul(term1, term1), term1)
        z3 == RMul(z2, z)
    IN  RSub(RSub(term1Cubed, RMul(x2, z3)), RMul(RMul(R(9, 80), y2), z3))

SetPoint(positions, index, p) ==
    [positions EXCEPT ![index * 3 + 1] = p[1],
                      ![index * 3 + 2] = p[2],
                      ![index * 3 + 3] = p[3]]

\* a rejection loop that stores an accepted sample as (x, y, z) * scale
HeartTrial_unmapped(st, count, tape) ==
    IF st.index < count /\ st.iterations < count * 100
    THEN LET x == RSub(RMul(Draw(tape, st.draw), Z(3)), R(3, 2))
             z == RSub(RMul(Draw(tape, st.draw + 1), Z(3)), R(3, 2))
             y == RSub(RMul(Draw(tape, st.draw + 2), Z(3)), One)
         IN  IF RLt(heartValue(x, y, z), Zero)
             THEN [positions |-> SetPoint(st.positions, st.index,
                                     Scale3(R(3, 2), <<x, y, z>>)),
                   index |-> st.index + 1,
                   iterations |-> st.iterations + 1,
                   draw |-> st.draw + 3]
             ELSE [st EXCEPT !.iterations = @ + 1, !.draw = @ + 3]
    ELSE st

\* a rejection loop without the safety limit: while (index < count) { ... }
HeartTrial_uncapped(st, count, tape) ==
    IF st.index < count
    THEN LET x == RSub(RMul(Draw(tape, st.draw), Z(3)), R(3, 2))
             z == RSub(RMul(Draw(tape, st.draw + 1), Z(3)), R(3, 2))
             y == RSub(RMul(Draw(tape, st.draw + 2), Z(3)), One)
         IN  IF RLt(heartValue(x, y, z), Zero)
             THEN [positions |-> SetPoint(st.positions, st.index,
                                     Scale3(R(3, 2), <<x, z, y>>)),
                   index |-> st.index + 1,
                   iterations |-> st.iterations + 1,
                   draw |-> st.draw + 3]
             ELSE [st EXCEPT !.iterations = @ + 1, !.draw = @ + 3]
    ELSE st

\* one pass of the rejection loop
\*   while (index < count && iterations < maxIterations) { ... }
\* over the loop state; the identity once the loop condition is false
HeartTrial(st, count, tape) ==
    IF st.index < count /\ st.iterations < count * 100
    THEN LET scale == R(3, 2)
             x == RSub(RMul(Draw(tape, st.draw), Z(3)), R(3, 2))
             z == RSub(RMul(Draw(tape, st.draw + 1), Z(3)), R(3, 2))
             y == RSub(RMul(Draw(tape, st.draw + 2), Z(3)), One)
         IN  IF RLt(heartValue(x, y, z), Zero)
             THEN [positions |-> SetPoint(st.positions, st.index,
                                     <<RMul(x, scale), RMul(z, scale), RMul(y, scale)>>),
                   index |-> st.index + 1,
                   iterations |-> st.iterations + 1,
                   draw |-> st.draw + 3]
             ELSE [st EXCEPT !.iterations = @ + 1, !.draw = @ + 3]
    ELSE st

\* one pass of the fallback loop  while (index < count) { ... }
HeartFill(st, count, tape) ==
    IF st.index < count
    THEN LET scale == R(3, 2)
             x == RMul(RMul(RSub(Draw(tape, st.draw), R(1, 2)), Z(2)), scale)
             y == RMul(RMul(Draw(tape, st.draw + 1), Z(2)), scale)
             z == RMul(RMul(RSub(Draw(tape, st.draw + 2), R(1, 2)), Z(2)), scale)
         IN  [st EXCEPT !.positions = SetPoint(st.positions, st.index, <<x, y, z>>),
                        !.index = @ + 1,
                        !.draw = @ + 3]
    ELSE st

\* n passes of the rejection loop: the first half is run to its end, then
\* the second half continues from the state it left
RECURSIVE HeartTrials(_, _, _, _)
HeartTrials(st, n, count, tape) ==
    IF n = 0 THEN st
    ELSE IF n = 1 THEN HeartTrial(st, count, tape)
    ELSE CHOOSE end \in { HeartTrials(half, n - (n \div 2), count, tape) :
                            half \in {HeartTrials(st, n \div 2, count, tape)} } : TRUE

\* n passes of the fallback loop
RECURSIVE HeartFills(_, _, _, _)
HeartFills(st, n, count, tape) ==
    IF n = 0 THEN st
    ELSE IF n = 1 THEN HeartFill(st, count, tape)
    ELSE CHOOSE end \in { HeartFills(half, n - (n \div 2), count, tape) :
                            half \in {HeartFills(st, n \div 2, count, tape)} } : TRUE

\* six-shape script generateHeartPositions(positions): writes into the array
\* it is given; at most count * 100 trials, then at most count fallback slots
generateHeartPositions(positions, count, tape) ==
    LET start == [positions |-> positions, index |-> 0, iterations |-> 0, draw |-> 0]
        sampled == HeartTrials(start, count * 100, count, tape)
    IN  HeartFills(sampled, count, count, tape).positions

\* x = radius*sin(phi)*cos(theta), y = radius*sin(phi)*sin(theta),
\* z = radius*cos(phi) with theta = rTheta * 2*PI and phi = acos(2*rPhi - 1)
SphericalPoint(radius, rTheta, rPhi) ==
    LET c == RSub(RMul(Z(2), rPhi), One)
    IN  << RMul(radius, RMul(SinAcos(c), CosT(rTheta))),
           RMul(radius, RMul(SinAcos(c), SinT(rTheta))),
           RMul(radius, CosAcos(c)) >>

Add3(p, q) == <<RAdd(p[1], q[1]), RAdd(p[2], q[2]), RAdd(p[3], q[3])>>

\* six-shape script generateFireworksPositions(positions): five bursts, three
\* draws for the centre of each burst, then three draws per particle; the
\* last burst takes every slot that is left
generateFireworksPositions(count, tape) ==
    LET numBursts == 5
        particlesPerBurst == count \div numBursts
        burst(k) == IF k < (numBursts - 1) * particlesPerBurst
                    THEN k \div particlesPerBurst ELSE numBursts - 1
        \* draws made before the centre of burst b, whose first slot is k0
        centreDraw(k) == 3 * burst(k) + 3 * (IF burst(k) = numBursts - 1
                                              THEN (numBursts - 1) * particlesPerBurst
                                              ELSE burst(k) * particlesPerBurst)
        centre(k) ==
            << RMul(RSub(Draw(tape, centreDraw(k)), R(1, 2)), Z(2)),
               RAdd(RMul(RSub(Draw(tape, centreDraw(k) + 1), R(1, 2)), Z(2)), R(1, 2)),
               RMul(RSub(Draw(tape, centreDraw(k) + 2), R(1, 2)), Z(2)) >>
        d(k) == 3 * (burst(k) + 1) + 3 * k
        point(k) ==
            Add3(centre(k),
                 SphericalPoint(RAdd(R(1, 2), RMul(Draw(tape, d(k) + 2), R(3, 2))),
                                Draw(tape, d(k)), Draw(tape, d(k) + 1)))
    IN  Flat(count, point)

\* radians to turns with PI taken as 22/7
Turns(radians) == RMul(radians, R(7, 44))

\* six-shape script generateChristmasTreePositions(positions): tree body,
\* then star, then trunk
generateChristmasTreePositions(count, tape) ==
    LET treeHeight == Z(3)
        baseRadius == R(3, 2)
        starParticles == (count * 5) \div 100
        trunkParticles == (count * 5) \div 100
        treeParticles == count - starParticles - trunkParticles
        body(i) ==
            LET t == R(i, treeParticles)
                y == RAdd(RDiv(RNeg(treeHeight), Z(2)), RMul(t, treeHeight))
                radiusAtHeight == RMul(baseRadius, RSub(One, RMul(t, R(9, 10))))
                spiralAngle == RAdd(RMul(t, Z(4)), Turns(RMul(Draw(tape, 2 * i), R(1, 2))))
                randomRadius == RMul(radiusAtHeight,
                                     RAdd(R(3, 10), RMul(Draw(tape, 2 * i + 1), R(7, 10))))
            IN  <<RMul(randomRadius, CosT(spiralAngle)), y,
                  RMul(randomRadius, SinT(spiralAngle))>>
        star(i) ==
            LET d == 2 * treeParticles + 2 * i
                angle == R(i, starParticles)
                starRadius == RAdd(R(15, 100), RMul(Draw(tape, d), R(15, 100)))
                yOffset == RSub(RMul(Draw(tape, d + 1), R(1, 10)), R(5, 100))
            IN  <<RMul(starRadius, CosT(RMul(angle, Z(5)))),
                  RAdd(RAdd(RDiv(treeHeight, Z(2)), R(3, 10)), yOffset),
                  RMul(starRadius, SinT(RMul(angle, Z(5))))>>
        trunk(i) ==
            LET d == 2 * treeParticles + 2 * starParticles + 3 * i
                r == RMul(Draw(tape, d + 1), R(15, 100))
            IN  <<RMul(r, CosT(Draw(tape, d))),
                  RSub(RDiv(RNeg(treeHeight), Z(2)), RMul(Draw(tape, d + 2), R(1, 2))),
                  RMul(r, SinT(Draw(tape, d)))>>
        point(k) ==
            IF k < treeParticles THEN body(k)
            ELSE IF k < treeParticles + starParticles THEN star(k - treeParticles)
            ELSE trunk(k - treeParticles - starParticles)
    IN  Flat(count, point)

\* the layered variant of generateChristmasTreePositions(positions): six
\* layers of the tree body, then the trunk, then the star
generateChristmasTreePositions_layers(count, tape) ==
    LET treeHeight == Z(3)
        baseRadius == R(12, 10)
        starParticles == (count * 5) \div 100
        trunkParticles == (count * 8) \div 100
        treeParticles == count - starParticles - trunkParticles
        numLayers == 6
        particlesPerLayer == treeParticles \div numLayers
        layer(k) == IF k < (numLayers - 1) * particlesPerLayer
                    THEN k \div particlesPerLayer ELSE numLayers - 1
        body(k) ==
            LET share == R(layer(k), numLayers)
                layerY == RAdd(RDiv(RNeg(treeHeight), Z(2)),
                               RMul(RMul(share, treeHeight), R(9, 10)))
                layerRadius == RMul(baseRadius, RSub(One, RMul(share, R(9, 10))))
                r == RMul(Draw(tape, 3 * k + 1), layerRadius)
                heightVariation == RMul(RSub(Draw(tape, 3 * k + 2), R(1, 2)), R(3, 10))
            IN  <<RMul(r, CosT(Draw(tape, 3 * k))), RAdd(layerY, heightVariation),
                  RMul(r, SinT(Draw(tape, 3 * k)))>>
        trunk(i) ==
            LET d == 3 * treeParticles + 3 * i
                r == RMul(Draw(tape, d + 1), R(15, 100))
            IN  <<RMul(r, CosT(Draw(tape, d))),
                  RSub(RDiv(RNeg(treeHeight), Z(2)), RMul(Draw(tape, d + 2), R(4, 10))),
                  RMul(r, SinT(Draw(tape, d)))>>
        star(i) ==
            LET d == 3 * treeParticles + 3 * trunkParticles + 2 * i
                angle == R(i, starParticles)
                r == IF i % 2 = 0 THEN R(25, 100) ELSE RMul(R(25, 100), R(4, 10))
                randomR == RMul(r, RAdd(R(1, 2), RMul(Draw(tape, d), R(1, 2))))
                starY == RAdd(RMul(RDiv(treeHeight, Z(2)), R(9, 10)), R(2, 10))
            IN  <<RMul(randomR, CosT(angle)),
                  RAdd(starY, RMul(RSub(Draw(tape, d + 1), R(1, 2)), R(1, 10))),
                  RMul(randomR, SinT(angle))>>
        point(k) ==
            IF k < treeParticles THEN body(k)
            ELSE IF k < treeParticles + trunkParticles THEN trunk(k - treeParticles)
            ELSE star(k - treeParticles - trunkParticles)
    IN  Flat(count, point)

\* six-shape script generatePlanetPositions(positions): sphere on 60% of the
\* slots (golden spiral, y and z swapped), ring on the rest
generatePlanetPositions(count, tape) ==
    LET sphereRadius == R(12, 10)
        ringInnerRadius == R(18, 10)
        ringOuterRadius == R(25, 10)
        ringThickness == R(1, 10)
        sphereParticles == (count * 6) \div 10
        body(i) ==
            LET p == Scale3(sphereRadius, SpiralDirection(i))
            IN  <<p[1], p[3], p[2]>>
        ring(i) ==
            LET radius == RAdd(ringInnerRadius,
                               RMul(Draw(tape, 3 * i + 1),
                                    RSub(ringOuterRadius, ringInnerRadius)))
            IN  <<RMul(radius, CosT(Draw(tape, 3 * i))),
                  RMul(RSub(Draw(tape, 3 * i + 2), R(1, 2)), ringThickness),
                  RMul(radius, SinT(Draw(tape, 3 * i)))>>
        point(k) == IF k < sphereParticles THEN body(k) ELSE ring(k - sphereParticles)
    IN  Flat(count, point)

\* Box/Sphere module generateShapePositions, the box loop: face =
\* floor(random * 6), then two draws for the free coordinates (boxSize 2)
generateBoxPositions_module(count, tape) ==
    LET boxSize == Z(2)
        half == RDiv(boxSize, Z(2))
        face(k) == Floor(RMul(Draw(tape, 3 * k), Z(6)))
        a(k) == RMul(RSub(Draw(tape, 3 * k + 1), R(1, 2)), boxSize)
        b(k) == RMul(RSub(Draw(tape, 3 * k + 2), R(1, 2)), boxSize)
        point(k) ==
            CASE face(k) = 0 -> <<a(k), b(k), half>>
              [] face(k) = 1 -> <<a(k), b(k), RNeg(half)>>
              [] face(k) = 2 -> <<a(k), half, b(k)>>
              [] face(k) = 3 -> <<a(k), RNeg(half), b(k)>>
              [] face(k) = 4 -> <<half, a(k), b(k)>>
              [] OTHER       -> <<RNeg(half), a(k), b(k)>>
    IN  Flat(count, point)

\* Box/Sphere module generateShapePositions, the sphere loop (radius 1.5),
\* which draws after the count * 3 draws of the box loop
generateSpherePositions_module(count, tape) ==
    Flat(count, LAMBDA k : SphericalPoint(R(3, 2), Draw(tape, 3 * count + 2 * k),
                                          Draw(tape, 3 * count + 2 * k + 1)))

\* first Sphere/Cube script generateSphereTargets: shapeRadius 5, phi drawn
\* before theta
generateSphereTargets(count, tape) ==
    Flat(count, LAMBDA k : SphericalPoint(Z(5), Draw(tape, 2 * k + 1), Draw(tape, 2 * k)))

\* first Sphere/Cube script generateCubeTargets: cubeSize 8, points in the
\* volume, drawn after the sphere's 2 * count draws
generateCubeTargets(count, tape) ==
    Flat(count, LAMBDA k :
        << RMul(RSub(Draw(tape, 2 * count + 3 * k), R(1, 2)), Z(8)),
           RMul(RSub(Draw(tape, 2 * count + 3 * k + 1), R(1, 2)), Z(8)),
           RMul(RSub(Draw(tape, 2 * count + 3 * k + 2), R(1, 2)), Z(8)) >>)

\* second Sphere/Cube script generateSpherePositions(count, radius)
generateSpherePositions_spread(count, radius) ==
    Flat(count, LAMBDA i : Scale3(radius, SpiralDirection(i)))

\* Math.ceil(Math.sqrt(k))
CeilSqrt(k) == CHOOSE r \in 0..k : r * r >= k /\ (r = 0 \/ (r - 1) * (r - 1) < k)

\* second Sphere/Cube script generateCubePositions(count, size): a
\* gridSize x gridSize grid on each face; slots past 6 * gridSize^2 keep 0
generateCubePositions_spread(count, size) ==
    LET particlesPerFace == count \div 6
        gridSize == CeilSqrt(particlesPerFace)
        point(k) ==
            IF k < 6 * gridSize * gridSize
            THEN LET step == RDiv(RMul(size, Z(2)), Z(gridSize))
                     face == k \div (gridSize * gridSize)
                     i == (k % (gridSize * gridSize)) \div gridSize
                     j == k % gridSize
                     u == RAdd(RNeg(size), RMul(step, RAdd(Z(i), R(1, 2))))
                     v == RAdd(RNeg(size), RMul(step, RAdd(Z(j), R(1, 2))))
                 IN  CASE face = 0 -> <<size, u, v>>
                       [] face = 1 -> <<RNeg(size), u, v>>
                       [] face = 2 -> <<u, size, v>>
                       [] face = 3 -> <<u, RNeg(size), v>>
                       [] face = 4 -> <<u, v, size>>
                       [] OTHER    -> <<u, v, RNeg(size)>>
            ELSE <<Zero, Zero, Zero>>
    IN  Flat(count, point)

\* second Sphere/Cube script createParticles: the random unit directions
spreadDirections(count, tape) ==
    Flat(count, LAMBDA k : SphericalPoint(One, Draw(tape, 2 * k), Draw(tape, 2 * k + 1)))

(***************************************************************************)
(* Configuration of the five scripts                                       *)
(***************************************************************************)
\* "script": script.js; "module": the Box/Sphere ES module; "shapes": the
\* six-shape script; "disp": the first Sphere/Cube script; "spread": the
\* second Sphere/Cube script
Variants == {"script", "module", "shapes", "disp", "spread"}

\* CONFIG.particleCount / PARTICLE_COUNT, cut down to the model's bound
PARTICLE_COUNT == ParticleCount

\* script.js CONFIG
morphSpeed == R(5, 100)
dispersionRange == [min |-> R(8, 10), max |-> Z(3)]
pinchThreshold == [min |-> R(3, 100), max |-> R(25, 100)]
dispersionReturnSpeed == R(2, 100)

\* Box/Sphere module CONFIG
maxDispersion == Z(3)
minDispersion == R(5, 10)
minPinchDistance == R(2, 100)
maxPinchDistance == R(30, 100)

\* six-shape script
PINCH_MIN_DISTANCE == R(3, 100)
PINCH_MAX_DISTANCE == R(20, 100)
INTERACTION_DECAY_RATE == R(2, 100)
ANIMATION_SMOOTHING_FACTOR == R(5, 100)
RANDOM_OFFSET_STRENGTH == R(5, 10)
dispersionStrength == Z(5)

\* first Sphere/Cube script CONFIG
lerpSpeed == R(2, 100)
dispersionMultiplier == Z(15)
pinchThreshold_disp == R(10, 100)
openThreshold == R(25, 100)

\* second Sphere/Cube script
SHAPE_RADIUS == Z(2)
MAX_SPREAD == Z(5)

\* the shape names each script's selector offers
ShapeNames(v) ==
    CASE v = "script" -> {"sphere", "cube"}
      [] v = "module" -> {"Sphere", "Box"}
      [] v = "shapes" -> {"Sphere", "Cube", "Heart", "Fireworks", "Christmas Tree", "Planet"}
      [] OTHER        -> {"Sphere", "Cube"}

\* generateHeartPositions(targetPositions) for each tape, computed once: the
\* loops write every slot, so the array's previous content does not show
HeartShapes ==
    [tape \in Tapes |->
        generateHeartPositions(ZeroArray(PARTICLE_COUNT), PARTICLE_COUNT, tape)]

\* six-shape script: what each generator writes into targetPositions, for
\* each tape, computed once
ShapeTargets ==
    [tape \in Tapes |->
        [shape \in ShapeNames("shapes") |->
            CASE shape = "Sphere" -> generateSpherePositions_shapes(PARTICLE_COUNT)
              [] shape = "Cube" -> generateCubePositions_shapes(PARTICLE_COUNT, tape)
              [] shape = "Heart" -> HeartShapes[tape]
              [] shape = "Fireworks" -> generateFireworksPositions(PARTICLE_COUNT, tape)
              [] shape = "Christmas Tree" ->
                    generateChristmasTreePositions(PARTICLE_COUNT, tape)
              [] OTHER -> generatePlanetPositions(PARTICLE_COUNT, tape)]]

(***************************************************************************)
(* Detector results                                                        *)
(***************************************************************************)
P3(x, y, z) == [x |-> x, y |-> y, z |-> z]

\* landmark 4 (thumb tip) and landmark 8 (index finger tip) of the one hand
\* a result carries; the distances are 0.01, 0.0317, 0.16 and 0.3
\* landmark 0 (wrist) and landmark 9 (middle finger MCP): fingers up (y
\* decreases), to the right, up, to the left
Hands ==
    { [thumbTip |-> P3(R(1, 2), R(1, 2), Zero), indexTip |-> P3(R(51, 100), R(1, 2), Zero),
       wrist |-> P3(R(1, 2), R(4, 5), Zero), middleMCP |-> P3(R(1, 2), R(3, 5), Zero)],
      [thumbTip |-> P3(R(1, 2), R(1, 2), Zero), indexTip |-> P3(R(1, 2), R(5317, 10000), Zero),
       wrist |-> P3(R(1, 2), R(4, 5), Zero), middleMCP |-> P3(R(7, 10), R(4, 5), Zero)],
      [thumbTip |-> P3(R(1, 2), R(1, 2), Zero), indexTip |-> P3(R(1, 2), R(1, 2), R(-16, 100)),
       wrist |-> P3(R(1, 2), R(4, 5), Zero), middleMCP |-> P3(R(1, 2), R(3, 5), Zero)],
      [thumbTip |-> P3(R(1, 2), R(1, 2), Zero), indexTip |-> P3(R(68, 100), R(74, 100), Zero),
       wrist |-> P3(R(1, 2), R(4, 5), Zero), middleMCP |-> P3(R(3, 10), R(4, 5), Zero)] }

\* results.multiHandLandmarks: no hand (the list is absent or empty: either
\* way the test `results.multiHandLandmarks && ....length > 0` fails), or one hand
Results == {<<>>} \cup {<<h>> : h \in Hands}

\* hands as the detector's contract does not deliver them: a landmark list
\* too short to hold landmark 8, and landmarks without a z coordinate
ShortHand == [thumbTip |-> P3(R(1, 2), R(1, 2), Zero)]
FlatHand == [thumbTip |-> [x |-> R(1, 2), y |-> R(1, 2)],
             indexTip |-> [x |-> R(68, 100), y |-> R(74, 100)],
             wrist |-> [x |-> R(1, 2), y |-> R(4, 5)],
             middleMCP |-> [x |-> R(1, 2), y |-> R(3, 5)]]
MalformedResults == {<<ShortHand>>, <<FlatHand>>}

\* the value of arithmetic on undefined: NaN, which every operation propagates
NaN == [n |-> 0, d |-> 0]
IsNaN(a) == a.d = 0

\* landmarks[4] and landmarks[8] exist
HasTips(hand) == {"thumbTip", "indexTip"} \subseteq DOMAIN hand
HasZ(hand) == "z" \in DOMAIN hand.thumbTip /\ "z" \in DOMAIN hand.indexTip

\* (point.z || 0)
ZOrZero(point) == IF "z" \in DOMAIN point THEN point.z ELSE Zero
WithZ(point) == P3(point.x, point.y, ZOrZero(point))

\* calculateDistance(point1, point2), and the same expression written inline
calculateDistance(point1, point2) ==
    LET dx == RSub(point1.x, point2.x)
        dy == RSub(point1.y, point2.y)
        dz == RSub(point1.z, point2.z)
    IN  RSqrt(RAdd(RAdd(RMul(dx, dx), RMul(dy, dy)), RMul(dz, dz)))

\* a mapRange that leaves its input as it comes
mapRange_script_unclamped(value, inMin, inMax, outMin, outMax) ==
    RAdd(outMin, RDiv(RMul(RSub(value, inMin), RSub(outMax, outMin)),
                      RSub(inMax, inMin)))

\* script.js mapRange: clamps the input to [inMin, inMax]
mapRange_script(value, inMin, inMax, outMin, outMax) ==
    LET clamped == RMax(inMin, RMin(inMax, value))
    IN  RAdd(outMin, RDiv(RMul(RSub(clamped, inMin), RSub(outMax, outMin)),
                          RSub(inMax, inMin)))

\* mapRange of the Box/Sphere module and of the first Sphere/Cube script:
\* no clamping
mapRange(value, inMin, inMax, outMin, outMax) ==
    RAdd(RDiv(RMul(RSub(value, inMin), RSub(outMax, outMin)), RSub(inMax, inMin)),
         outMin)

(***************************************************************************)
(* State                                                                   *)
(***************************************************************************)
VARIABLES
    variant,          \* the script that is loaded
    randomTape,       \* the stream Math.random() yields on this page load
    pc,               \* where init() stands
    rafScheduled,     \* a requestAnimationFrame(animate) callback is pending
    cameraState,      \* "off", "starting", "on" or "failed"
    errorReports,     \* messages shown to the user about a detector failure
    guiReady,         \* the control panel exists
    guiTimer,         \* second Sphere/Cube script: the setInterval poll is active
    guiLibrary,       \* window.GUI is defined (the control-panel library has loaded)
    guiPanels,        \* control panels constructed so far
    particleColor,    \* colour of the particle material (script.js: of every vertex)
    particleSize,     \* size of the particle material
    positions,        \* the array of the geometry's position attribute
    targetPositions,
    spherePositions,  \* precomputed shapes (spherePositions / sphereTargets)
    cubePositions,    \* (boxPositions / cubeTargets / cubePositions)
    originalPosition, \* second Sphere/Cube script: originalPosition attribute
    spreadDirection,  \* second Sphere/Cube script: spreadDirection attribute
    currentShape,     \* currentShape / CONFIG.currentShape / settings.shape
    dispersionFactor, \* script.js, Box/Sphere module, first Sphere/Cube script
    interactionFactor,\* six-shape script
    targetSpread,     \* second Sphere/Cube script
    currentSpread,
    handDetected,     \* second Sphere/Cube script: the preview canvas shows landmarks
    pinchDistance,    \* distance computed by the last hand-present callback
    callbackErrors,   \* errors thrown out of onHandResults so far
    targetRotationZ,  \* six-shape script, in quarter turns (PI / 2 radians)
    currentRotationZ, \* six-shape script: particleSystem.rotation.z, in quarter turns
    rotationY,        \* rotation.y of the particle system, in radians
    rotationX,        \* rotation.x of the particle system, in radians
    frames,           \* display frames run so far
    callbacks,        \* detector callbacks run so far
    selects,          \* shape selections made so far
    selectionLog,     \* per selection so far, in order: the name chosen and the
                      \* target array it left installed
    generatorName,    \* a generator called on its own: which one ("none": no call)
    generatorCount,   \* the particle count it is called with
    generatorPc,      \* "idle", "called", "sampling", "filling" or "returned"
    generatorOutput,  \* the array it returns or fills
    generatorLog,     \* the slot indices it has written, in the order of the writes
    generatorParts,   \* per loop, in order: the sub-count that bounds it (heart: the
                      \* passes the loop has made)
    heartState        \* generateHeartPositions: index, iterations, positions

sceneVars == <<positions, targetPositions, spherePositions, cubePositions,
               originalPosition, spreadDirection>>
gestureVars == <<dispersionFactor, interactionFactor, targetSpread, handDetected,
                 pinchDistance, callbackErrors>>
loopVars == <<pc, rafScheduled, cameraState, errorReports, guiReady, guiTimer>>
generatorVars == <<generatorName, generatorCount, generatorPc, generatorOutput,
                   generatorLog, generatorParts, heartState>>
rotationVars == <<targetRotationZ, currentRotationZ, rotationY, rotationX>>
renderVars == <<particleColor, particleSize>>
panelVars == <<guiLibrary, guiPanels, renderVars, selectionLog>>
vars == <<variant, randomTape, loopVars, sceneVars, gestureVars, currentShape, currentSpread,
          frames, callbacks, selects, generatorVars, rotationVars, panelVars>>

\* the size the particle material is created with
DefaultSize(v) ==
    CASE v = "script" -> Z(3)
      [] v = "shapes" -> RMul(Z(3), R(1, 100))
      [] v = "spread" -> R(3, 100)
      [] OTHER -> R(5, 100)

\* the module-level declarations of each script, before init() runs
PageLoad ==
    /\ variant \in Variants
    /\ randomTape \in Tapes
    /\ pc = "init"
    /\ rafScheduled = FALSE
    /\ cameraState = "off"
    /\ errorReports = 0
    /\ guiReady = FALSE
    /\ guiTimer = FALSE
    /\ guiLibrary \in (IF variant = "spread" THEN BOOLEAN ELSE {TRUE})
    /\ selectionLog = <<>>
    /\ guiPanels = 0
    /\ particleColor = "#00ffff"
    /\ particleSize = DefaultSize(variant)
    /\ positions = <<>>
    /\ targetPositions = <<>>
    /\ spherePositions = <<>>
    /\ cubePositions = <<>>
    /\ originalPosition = <<>>
    /\ spreadDirection = <<>>
    /\ currentShape = CASE variant = "script" -> "sphere"
                        [] variant = "shapes" -> "Heart"
                        [] OTHER -> "Sphere"
    /\ dispersionFactor = IF variant \in {"script", "module"} THEN One ELSE Zero
    /\ interactionFactor = IF variant = "shapes" THEN One ELSE Zero
    /\ targetSpread = Zero
    /\ currentSpread = Zero
    /\ handDetected = FALSE
    /\ pinchDistance = Zero
    /\ callbackErrors = 0
    /\ targetRotationZ = Zero
    /\ currentRotationZ = Zero
    /\ rotationY = Zero
    /\ rotationX = Zero
    /\ frames = 0
    /\ callbacks = 0
    /\ selects = 0

\* the loop state generateHeartPositions starts from
HeartStart(count) ==
    [positions |-> ZeroArray(count), index |-> 0, iterations |-> 0, draw |-> 0]

\* no generator is called on its own
GeneratorIdle ==
    /\ generatorName = "none"
    /\ generatorCount = 0
    /\ generatorPc = "idle"
    /\ generatorOutput = <<>>
    /\ generatorLog = <<>>
    /\ generatorParts = <<>>
    /\ heartState = HeartStart(0)

Init == PageLoad /\ GeneratorIdle

(***************************************************************************)
(* The integrator step of each script                                      *)
(***************************************************************************)
Indices == 1..(3 * PARTICLE_COUNT)

\* an interpolation that steps past its destination
Lerp_overshoot(current, destination, factor) ==
    RAdd(current, RMul(RSub(destination, current), RAdd(One, factor)))

\* current += (destination - current) * factor
Lerp(current, destination, factor) ==
    RAdd(current, RMul(RSub(destination, current), factor))

\* Math.sqrt(x*x + y*y + z*z) of the point that owns slot k
LengthAt(array, k) ==
    LET b == 3 * ((k - 1) \div 3)
    IN  RSqrt(RAdd(RAdd(RMul(array[b + 1], array[b + 1]),
                        RMul(array[b + 2], array[b + 2])),
                   RMul(array[b + 3], array[b + 3])))

\* a destination that is the target itself
Destination_script_unscaled(target, factor) ==
    [k \in Indices |-> target[k]]

\* script.js updateParticles: the target scaled by dispersionFactor
Destination_script(target, factor) ==
    [k \in Indices |-> RMul(target[k], factor)]

updateParticles_script(current, target, factor) ==
    LET destination == Destination_script(target, factor)
    IN  [k \in Indices |-> Lerp(current[k], destination[k], morphSpeed)]

\* Box/Sphere module updateParticlePositions.  currentPositions is the very
\* array the position attribute was built on, so `positions` and
\* `currentPositions` are one array: slot i is first lerped, then overwritten
\* with the lerped value times the dispersion
updateParticlePositions(current, target, dispersion) ==
    [k \in Indices |-> RMul(Lerp(current[k], target[k], morphSpeed), dispersion)]

\* a displacement applied whatever the dispersion is
Destination_shapes_always(target, factor, tape) ==
    LET dispersion == RMul(factor, dispersionStrength)
        moved(k) == RGt(LengthAt(target, k), Zero)
        draws(k) == Cardinality({i \in 0..(((k - 1) \div 3) - 1) : moved(3 * i + 1)})
        randomOffset(k) == RMul(RSub(Draw(tape, draws(k)), R(1, 2)), RANDOM_OFFSET_STRENGTH)
    IN  [k \in Indices |->
            IF moved(k)
            THEN RAdd(target[k],
                      RAdd(RMul(RDiv(target[k], LengthAt(target, k)), dispersion),
                           randomOffset(k)))
            ELSE target[k]]

\* a scatter added outside the test of the length: every coordinate takes a
\* random offset of its own once dispersion > 0.1, the radial term only off
\* the origin
Destination_shapes_scatter(target, factor, tape) ==
    LET dispersion == RMul(factor, dispersionStrength)
        length == [k \in Indices |-> LengthAt(target, k)]
        randomOffset(k) ==
            RMul(RSub(Draw(tape, k - 1), R(1, 2)), RANDOM_OFFSET_STRENGTH)
    IN  [k \in Indices |->
            IF RGt(dispersion, R(1, 10))
            THEN RAdd(target[k],
                      RAdd(IF RGt(length[k], Zero)
                           THEN RMul(RDiv(target[k], length[k]), dispersion)
                           ELSE Zero,
                           randomOffset(k)))
            ELSE target[k]]

\* six-shape script updateParticles: radial displacement and one random
\* offset per particle, shared by its three axes, when dispersion > 0.1
Destination_shapes(target, factor, tape) ==
    LET dispersion == RMul(factor, dispersionStrength)
        length == [k \in Indices |-> LengthAt(target, k)]
        moved(k) == RGt(dispersion, R(1, 10)) /\ RGt(length[k], Zero)
        \* Math.random() calls made for the particles before the owner of k
        draws(k) == Cardinality({i \in 0..(((k - 1) \div 3) - 1) : moved(3 * i + 1)})
        randomOffset(k) == RMul(RSub(Draw(tape, draws(k)), R(1, 2)), RANDOM_OFFSET_STRENGTH)
    IN  [k \in Indices |->
            IF moved(k)
            THEN RAdd(target[k],
                      RAdd(RMul(RDiv(target[k], length[k]), dispersion),
                           randomOffset(k)))
            ELSE target[k]]

updateParticles_shapes(current, target, factor, tape) ==
    LET destination == Destination_shapes(target, factor, tape)
    IN  [k \in Indices |-> Lerp(current[k], destination[k], ANIMATION_SMOOTHING_FACTOR)]

\* first Sphere/Cube script updateParticles
Destination_disp(target, factor) ==
    [k \in Indices |->
        LET length == LengthAt(target, k)
            normalized == IF RGt(length, Zero) THEN RDiv(target[k], length) ELSE Zero
        IN  RAdd(target[k], RMul(RMul(normalized, factor), dispersionMultiplier))]

updateParticles_disp(current, target, factor) ==
    LET destination == Destination_disp(target, factor)
    IN  [k \in Indices |-> Lerp(current[k], destination[k], lerpSpeed)]

\* second Sphere/Cube script animate: the spread is smoothed first, then the
\* positions move toward originalPosition + spreadDirection * spreadAmount
SmoothSpread(current, target) == Lerp(current, target, R(1, 10))

Destination_spread(original, directions, spread) ==
    [k \in Indices |-> RAdd(original[k], RMul(directions[k], RMul(spread, MAX_SPREAD)))]

updateParticles_spread(current, original, directions, spread) ==
    LET destination == Destination_spread(original, directions, spread)
    IN  [k \in Indices |-> Lerp(current[k], destination[k], R(5, 100))]

(***************************************************************************)
(* The gesture value each script's onHandResults stores                    *)
(***************************************************************************)
Clamp01(x) == RMin(One, RMax(Zero, x))

\* the distance range each script maps from, and the value range it maps to
PinchMin(v) ==
    CASE v = "script" -> pinchThreshold.min
      [] v = "module" -> minPinchDistance
      [] v = "shapes" -> PINCH_MIN_DISTANCE
      [] v = "disp"   -> pinchThreshold_disp
      [] OTHER        -> R(3, 100)

PinchMax(v) ==
    CASE v = "script" -> pinchThreshold.max
      [] v = "module" -> maxPinchDistance
      [] v = "shapes" -> PINCH_MAX_DISTANCE
      [] v = "disp"   -> openThreshold
      [] OTHER        -> RAdd(R(3, 100), R(17, 100))

GestureLow(v) ==
    CASE v = "script" -> dispersionRange.min
      [] v = "module" -> minDispersion
      [] OTHER        -> Zero

GestureHigh(v) ==
    CASE v = "script" -> dispersionRange.max
      [] v = "module" -> maxDispersion
      [] OTHER        -> One

\* the value a no-hand callback moves toward
Baseline(v) == IF v \in {"script", "module"} THEN One ELSE Zero

\* a mapping with the two ends of the output range exchanged
HandValue_swapped(v, distance) ==
    mapRange_script(distance, PinchMin(v), PinchMax(v), GestureHigh(v), GestureLow(v))

\* a hand-present value that is blended with the value stored before
HandValue_blended(v, distance) ==
    Lerp(CASE v = "shapes" -> interactionFactor
           [] v = "spread" -> targetSpread
           [] OTHER -> dispersionFactor,
         mapRange_script(distance, PinchMin(v), PinchMax(v), GestureLow(v), GestureHigh(v)),
         R(1, 2))

\* hand present: the value computed from the thumb-index distance
HandValue(v, distance) ==
    CASE v = "script" ->
            mapRange_script(
                mapRange_script(distance, pinchThreshold.min, pinchThreshold.max, Zero, One),
                Zero, One, dispersionRange.min, dispersionRange.max)
      [] v = "module" ->
            mapRange(RMin(RMax(distance, minPinchDistance), maxPinchDistance),
                     minPinchDistance, maxPinchDistance, minDispersion, maxDispersion)
      [] v = "shapes" ->
            RMin(One, RMax(Zero, RDiv(RSub(distance, PINCH_MIN_DISTANCE),
                                      RSub(PINCH_MAX_DISTANCE, PINCH_MIN_DISTANCE))))
      [] v = "disp" ->
            RMax(Zero, RMin(One, mapRange(distance, pinchThreshold_disp, openThreshold,
                                          Zero, One)))
      [] OTHER ->
            RMin(RMax(RDiv(RSub(distance, R(3, 100)), R(17, 100)), Zero), One)

\* a decay whose step is not limited by the distance left to the baseline
NoHandValue_overshoot(v, value) ==
    IF v = "spread" THEN value
    ELSE IF RLt(value, Baseline(v)) THEN RAdd(value, INTERACTION_DECAY_RATE)
    ELSE RSub(value, INTERACTION_DECAY_RATE)

\* a linear decay without its floor
NoHandValue_unfloored(v, value) ==
    CASE v = "script" -> RAdd(value, RMul(RSub(One, value), dispersionReturnSpeed))
      [] v = "module" -> RAdd(value, RMul(RSub(One, value), R(5, 100)))
      [] v = "shapes" -> RSub(value, INTERACTION_DECAY_RATE)
      [] v = "disp"   -> RMul(value, R(95, 100))
      [] OTHER        -> value

\* no hand: the value left by the else branch
NoHandValue(v, value) ==
    CASE v = "script" -> RAdd(value, RMul(RSub(One, value), dispersionReturnSpeed))
      [] v = "module" -> RAdd(value, RMul(RSub(One, value), R(5, 100)))
      [] v = "shapes" -> RMax(Zero, RSub(value, INTERACTION_DECAY_RATE))
      [] v = "disp"   -> RMul(value, R(95, 100))
      [] OTHER        -> value

(***************************************************************************)
(* The rotation of the whole particle system                               *)
(***************************************************************************)
ROTATION_SMOOTHING_FACTOR == R(8, 100)
ROTATION_DECAY_FACTOR == R(98, 100)
\* Math.PI / 2, in quarter turns
HAND_ROTATION_OFFSET == One

\* Math.atan2(dy, dx) in quarter turns: exact on the four axis directions,
\* the value of the axis direction of the larger component otherwise
Atan2Quarters(dy, dx) ==
    IF RGe(RAbs(dx), RAbs(dy))
    THEN (IF RGe(dx, Zero) THEN Zero ELSE Z(2))
    ELSE (IF RGt(dy, Zero) THEN One ELSE Z(-1))

\* six-shape script onHandResults: the angle from the wrist to the middle
\* finger MCP, plus the offset
HandRotation(hand) ==
    RAdd(Atan2Quarters(RSub(hand.middleMCP.y, hand.wrist.y),
                       RSub(hand.middleMCP.x, hand.wrist.x)),
         HAND_ROTATION_OFFSET)

\* a rotation that is set to the hand's angle at once
RotationZ_snap(current, target, detected) ==
    IF detected THEN target ELSE RMul(current, ROTATION_DECAY_FACTOR)

\* a rotation that is left where the hand put it when the hand is lost
RotationZ_frozen(current, target, detected) ==
    IF detected THEN Lerp(current, target, ROTATION_SMOOTHING_FACTOR) ELSE current

\* six-shape script animate: currentRotationZ after one frame
RotationZ(current, target, detected) ==
    IF detected
    THEN Lerp(current, target, ROTATION_SMOOTHING_FACTOR)
    ELSE RMul(current, ROTATION_DECAY_FACTOR)

\* the layered six-shape variant's animate: rotation.z after one frame
RotationZ_layers(current, target, detected) ==
    IF detected THEN Lerp(current, target, R(1, 10)) ELSE Lerp(current, Zero, R(2, 100))

\* what one frame adds to rotation.y and to rotation.x (script.js with the
\* control panel's defaults autoRotate = true, rotationSpeed = 1.0)
RotationYStep(v, detected) ==
    CASE v = "script" -> R(1, 1000)
      [] v = "shapes" -> IF detected THEN R(1, 1000) ELSE R(2, 1000)
      [] OTHER -> R(2, 1000)

RotationXStep(v) ==
    CASE v = "script" -> RMul(R(1, 1000), R(3, 10))
      [] v \in {"module", "spread"} -> R(1, 1000)
      [] OTHER -> Zero

(***************************************************************************)
(* Actions                                                                 *)
(***************************************************************************)
\* init() up to its first call of initMediaPipe() or animate(): the scene,
\* the particle arrays, and the control panel where it is built by then
InitScene ==
    /\ pc = "init"
    /\ CASE variant = "script" ->
              \* initThreeJS (createParticles, setTargetShape('sphere')), initGUI
              /\ positions' = ZeroArray(PARTICLE_COUNT)
              /\ targetPositions' = generateSpherePositions_script(PARTICLE_COUNT)
              /\ UNCHANGED <<spherePositions, cubePositions, originalPosition, spreadDirection>>
              /\ guiReady' = TRUE
              /\ guiTimer' = FALSE
              /\ pc' = "animate"
         [] variant = "module" ->
              \* initThreeJS (generateShapePositions, createParticleSystem)
              /\ cubePositions' = generateBoxPositions_module(PARTICLE_COUNT, randomTape)
              /\ spherePositions' = generateSpherePositions_module(PARTICLE_COUNT, randomTape)
              /\ targetPositions' = spherePositions'
              /\ positions' = spherePositions'
              /\ UNCHANGED <<originalPosition, spreadDirection, guiReady, guiTimer>>
              /\ pc' = "initMediaPipe"
         [] variant = "shapes" ->
              \* initThreeJS, initParticles, initGUI
              /\ targetPositions' = HeartShapes[randomTape]
              /\ positions' = targetPositions'
              /\ UNCHANGED <<spherePositions, cubePositions, originalPosition, spreadDirection>>
              /\ guiReady' = TRUE
              /\ guiTimer' = FALSE
              /\ pc' = "initMediaPipe"
         [] variant = "disp" ->
              \* initThreeJS, initParticles, initGUI
              /\ spherePositions' = generateSphereTargets(PARTICLE_COUNT, randomTape)
              /\ cubePositions' = generateCubeTargets(PARTICLE_COUNT, randomTape)
              /\ targetPositions' = spherePositions'
              /\ positions' = spherePositions'
              /\ UNCHANGED <<originalPosition, spreadDirection>>
              /\ guiReady' = TRUE
              /\ guiTimer' = FALSE
              /\ pc' = "initMediaPipe"
         [] OTHER ->
              \* initThree (createParticles), initGUI (starts the poll)
              /\ spherePositions' = generateSpherePositions_spread(PARTICLE_COUNT, SHAPE_RADIUS)
              /\ cubePositions' = generateCubePositions_spread(PARTICLE_COUNT, SHAPE_RADIUS)
              /\ targetPositions' = spherePositions'
              /\ positions' = spherePositions'
              /\ originalPosition' = spherePositions'
              /\ spreadDirection' = spreadDirections(PARTICLE_COUNT, randomTape)
              /\ guiReady' = FALSE
              /\ guiTimer' = TRUE
              /\ pc' = "initMediaPipe"
    /\ guiPanels' = IF guiReady' THEN 1 ELSE 0
    /\ UNCHANGED <<guiLibrary, renderVars, selectionLog, generatorVars,
                   rotationVars, variant,
                   randomTape, rafScheduled, cameraState, errorReports, gestureVars,
                   currentShape, currentSpread, frames, callbacks, selects>>

\* initMediaPipe(): `new Hands(...)` either returns or throws (the detector
\* library did not load); when it returns, camera.start() is called.  Only
\* script.js wraps the body in try/catch; in the other scripts the exception
\* leaves init() before it reaches the calls that follow
InitMediaPipe(constructed) ==
    /\ pc = "initMediaPipe"
    /\ cameraState' = IF constructed THEN "starting" ELSE "off"
    /\ errorReports' = IF ~constructed /\ variant = "script"
                       THEN errorReports + 1 ELSE errorReports
    /\ pc' = IF variant = "script" THEN "done"
             ELSE IF constructed THEN "animate" ELSE "failed"
    \* the Box/Sphere module calls initGUI() after initMediaPipe()
    /\ guiReady' = IF variant = "module" THEN constructed ELSE guiReady
    /\ guiPanels' = IF variant = "module" /\ constructed THEN guiPanels + 1 ELSE guiPanels
    /\ UNCHANGED <<guiLibrary, renderVars, selectionLog, generatorVars,
                   rotationVars, variant,
                   randomTape, rafScheduled,
                   guiTimer, sceneVars, gestureVars, currentShape, currentSpread, frames,
                   callbacks, selects>>

\* the promise of camera.start() settles after init() has returned
CameraSettles(started) ==
    /\ cameraState = "starting"
    /\ pc \in {"done", "failed"}
    /\ cameraState' = IF started THEN "on" ELSE "failed"
    \* script.js: catch block; six-shape script: .catch(alert)
    /\ errorReports' = IF ~started /\ variant \in {"script", "shapes"}
                       THEN errorReports + 1 ELSE errorReports
    /\ UNCHANGED <<panelVars, generatorVars, rotationVars, variant, randomTape, pc, rafScheduled,
                   guiReady, guiTimer, sceneVars, gestureVars, currentShape, currentSpread,
                   frames, callbacks, selects>>

\* a tick of the poll that leaves the interval running after it has built
\* the panel
GuiPoll_keepsTimer ==
    /\ guiTimer
    /\ guiPanels < 3
    /\ IF guiLibrary
       THEN /\ guiPanels' = guiPanels + 1
            /\ guiReady' = TRUE
       ELSE UNCHANGED <<guiPanels, guiReady>>
    /\ UNCHANGED <<guiTimer, guiLibrary, renderVars, selectionLog, generatorVars,
                   rotationVars, variant,
                   randomTape, pc, rafScheduled, cameraState, errorReports, sceneVars,
                   gestureVars, currentShape, currentSpread, frames, callbacks, selects>>

\* second Sphere/Cube script: one tick of the setInterval callback of
\* initGUI(), every 100 ms while the interval is active
GuiPoll ==
    /\ guiTimer
    /\ IF guiLibrary
       THEN \* clearInterval(checkGUI); gui = new window.GUI(...)
            /\ guiTimer' = FALSE
            /\ guiPanels' = guiPanels + 1
            /\ guiReady' = TRUE
       ELSE UNCHANGED <<guiTimer, guiPanels, guiReady>>
    /\ UNCHANGED <<guiLibrary, renderVars, selectionLog, generatorVars,
                   rotationVars, variant,
                   randomTape, pc, rafScheduled, cameraState, errorReports, sceneVars,
                   gestureVars, currentShape, currentSpread, frames, callbacks, selects>>

\* second Sphere/Cube script: the control-panel library finishes loading and
\* defines window.GUI
LibraryLoads ==
    /\ ~guiLibrary
    /\ guiLibrary' = TRUE
    /\ UNCHANGED <<guiPanels, renderVars, selectionLog, generatorVars,
                   rotationVars, variant,
                   randomTape, loopVars, sceneVars, gestureVars, currentShape,
                   currentSpread, frames, callbacks, selects>>

\* the largest denominator in an array
Denominator(array) ==
    IF array = <<>> THEN 1
    ELSE CHOOSE d \in {array[k].d : k \in DOMAIN array} :
            \A k \in DOMAIN array : array[k].d <= d

\* what is left of `limit` after dividing it by every denominator in turn
RECURSIVE Budget(_, _)
Budget(denominators, limit) ==
    IF denominators = <<>> THEN limit
    ELSE Budget(Tail(denominators), limit \div Head(denominators))

\* the operands of one frame's arithmetic are within the explored precision
FrameRepresentable ==
    IF IsNaN(dispersionFactor) \/ (\E k \in DOMAIN positions : IsNaN(positions[k]))
    THEN TRUE
    ELSE Budget(<<Denominator(positions), Denominator(targetPositions),
                  Denominator(originalPosition), Denominator(spreadDirection),
                  dispersionFactor.d, interactionFactor.d, currentSpread.d,
                  targetSpread.d>>,
                MaxDenominator) >= 1

\* the gesture scalar of the loaded script
GestureValue ==
    CASE variant = "shapes" -> interactionFactor
      [] variant = "spread" -> targetSpread
      [] OTHER -> dispersionFactor

\* the positions one frame leaves, from `current` and the scalar the frame
\* reads (the smoothed currentSpread in the second Sphere/Cube script)
FramePositions(current, value) ==
    CASE IsNaN(value) \/ (\E k \in DOMAIN current : IsNaN(current[k])) ->
            \* first Sphere/Cube script: dispersed = target + normalized * NaN * ...
            \* is NaN for every coordinate, and so is positions += (NaN - positions) * ...
            [k \in DOMAIN current |-> NaN]
      [] variant = "script" -> updateParticles_script(current, targetPositions, value)
      [] variant = "module" -> updateParticlePositions(current, targetPositions, value)
      [] variant = "shapes" ->
            updateParticles_shapes(current, targetPositions, value, randomTape)
      [] variant = "disp" -> updateParticles_disp(current, targetPositions, value)
      [] OTHER ->
            updateParticles_spread(current, originalPosition, spreadDirection, value)

\* animate(): called once by init(), then by every display frame it scheduled
Animate ==
    /\ pc = "animate" \/ (rafScheduled /\ pc = "done")
    /\ frames < MaxFrames
    /\ FrameRepresentable
    /\ rafScheduled' = TRUE
    /\ pc' = IF pc = "animate"
             THEN (IF variant = "script" THEN "initMediaPipe" ELSE "done")
             ELSE pc
    /\ currentSpread' = IF variant = "spread"
                        THEN SmoothSpread(currentSpread, targetSpread)
                        ELSE currentSpread
    /\ positions' = FramePositions(positions, IF variant = "spread" THEN currentSpread'
                                               ELSE GestureValue)
    /\ frames' = frames + 1
    /\ currentRotationZ' = IF variant = "shapes"
                           THEN RotationZ(currentRotationZ, targetRotationZ, handDetected)
                           ELSE currentRotationZ
    /\ rotationY' = RAdd(rotationY, RotationYStep(variant, handDetected))
    /\ rotationX' = RAdd(rotationX, RotationXStep(variant))
    /\ UNCHANGED <<panelVars, generatorVars, targetRotationZ, variant, randomTape, cameraState,
                   errorReports, guiReady, guiTimer, targetPositions, spherePositions,
                   cubePositions, originalPosition, spreadDirection, gestureVars,
                   currentShape, callbacks, selects>>

\* onHandResults(results), delivered while the camera runs; `limit` bounds
\* the callbacks that are followed
HandResults(results, limit) ==
    /\ cameraState = "on"
    /\ callbacks < limit
    /\ IF Len(results) > 0 /\ ~HasTips(results[1])
       THEN \* thumbTip.x or indexTip.x of undefined: a TypeError leaves the handler
            /\ handDetected' = (variant # "spread" \/ handDetected)
            /\ callbackErrors' = callbackErrors + 1
            /\ UNCHANGED <<pinchDistance, dispersionFactor, interactionFactor, targetSpread,
                           targetRotationZ>>
       ELSE IF Len(results) > 0 /\ variant = "disp" /\ ~HasZ(results[1])
       THEN \* thumbTip.z - indexTip.z is NaN, and so are the distance, the mapped
            \* value and Math.max(0, Math.min(1, NaN))
            /\ pinchDistance' = NaN
            /\ handDetected' = TRUE
            /\ dispersionFactor' = NaN
            /\ UNCHANGED <<interactionFactor, targetSpread, callbackErrors, targetRotationZ>>
       ELSE IF Len(results) > 0
       THEN LET distance == calculateDistance(WithZ(results[1].thumbTip),
                                              WithZ(results[1].indexTip))
            IN  /\ pinchDistance' = distance
                /\ handDetected' = TRUE
                /\ callbackErrors' = callbackErrors
                /\ targetRotationZ' = IF variant = "shapes"
                                      THEN HandRotation(results[1]) ELSE targetRotationZ
                /\ dispersionFactor' = IF variant \in {"script", "module", "disp"}
                                       THEN HandValue(variant, distance)
                                       ELSE dispersionFactor
                /\ interactionFactor' = IF variant = "shapes"
                                        THEN HandValue(variant, distance)
                                        ELSE interactionFactor
                /\ targetSpread' = IF variant = "spread"
                                   THEN HandValue(variant, distance)
                                   ELSE targetSpread
       ELSE /\ pinchDistance' = pinchDistance
            /\ handDetected' = FALSE
            /\ callbackErrors' = callbackErrors
            /\ targetRotationZ' = targetRotationZ
            /\ dispersionFactor' = IF IsNaN(dispersionFactor) THEN NaN
                                   ELSE IF variant \in {"script", "module", "disp"}
                                   THEN NoHandValue(variant, dispersionFactor)
                                   ELSE dispersionFactor
            /\ interactionFactor' = IF variant = "shapes"
                                    THEN NoHandValue(variant, interactionFactor)
                                    ELSE interactionFactor
            /\ targetSpread' = IF variant = "spread"
                               THEN NoHandValue(variant, targetSpread)
                               ELSE targetSpread
    /\ callbacks' = callbacks + 1
    /\ UNCHANGED <<panelVars, generatorVars, currentRotationZ, rotationY, rotationX, variant,
                   randomTape, loopVars, sceneVars, currentShape, currentSpread, frames,
                   selects>>

OnHandResults(results) == HandResults(results, MaxCallbacks)

\* a selection that installs only the slots six face loops of
\* floor(count / 6) passes each have written
SelectedTarget_written(shape) ==
    LET written == 18 * (PARTICLE_COUNT \div 6)
        whole == CASE variant = "script" ->
                        IF shape = "sphere"
                        THEN generateSpherePositions_script(PARTICLE_COUNT)
                        ELSE generateCubePositions_script(PARTICLE_COUNT, randomTape)
                   [] variant = "module" ->
                        IF shape = "Box" THEN cubePositions ELSE spherePositions
                   [] variant = "shapes" -> ShapeTargets[randomTape][shape]
                   [] OTHER ->
                        IF shape = "Sphere" THEN spherePositions ELSE cubePositions
    IN  SubSeq(whole, 1, written)

\* a selection whose Sphere array is the target array itself, so that what
\* an earlier selection copied into the target is what Sphere installs
SelectedTarget_aliased(shape) ==
    IF shape \in {"Sphere", "sphere"} /\ variant # "shapes"
    THEN targetPositions
    ELSE CASE variant = "script" ->
                generateCubePositions_script(PARTICLE_COUNT, randomTape)
           [] variant = "module" -> cubePositions
           [] variant = "shapes" -> ShapeTargets[randomTape][shape]
           [] OTHER -> cubePositions

\* the point set a selection of `shape` installs as the target
SelectedTarget(shape) ==
    CASE variant = "script" ->
            IF shape = "sphere"
            THEN generateSpherePositions_script(PARTICLE_COUNT)
            ELSE generateCubePositions_script(PARTICLE_COUNT, randomTape)
      [] variant = "module" ->
            IF shape = "Box" THEN cubePositions ELSE spherePositions
      [] variant = "shapes" -> ShapeTargets[randomTape][shape]
      [] OTHER ->
            IF shape = "Sphere" THEN spherePositions ELSE cubePositions

\* a selection that also moved the particles onto the new shape at once
SelectShape_teleport(shape) ==
    /\ guiReady
    /\ pc \in {"done", "failed"}
    /\ selects < MaxSelects
    /\ shape \in ShapeNames(variant)
    /\ currentShape' = shape
    /\ targetPositions' = SelectedTarget(shape)
    /\ positions' = targetPositions'
    /\ originalPosition' = IF variant = "spread" THEN targetPositions'
                           ELSE originalPosition
    /\ selects' = selects + 1
    /\ selectionLog' = Append(selectionLog,
                              [shape |-> shape, target |-> targetPositions'])
    /\ UNCHANGED <<guiLibrary, guiPanels, renderVars, generatorVars, rotationVars,
                   variant, randomTape, loopVars,
                   spherePositions, cubePositions, spreadDirection, gestureVars,
                   currentSpread, frames, callbacks>>

\* the Shape control's onChange: setTargetShape(value) in script.js and the
\* Box/Sphere module, switchShape(value) in the six-shape script,
\* updateTargetShape() in the two Sphere/Cube scripts
ShapeChange(shape, limit) ==
    /\ guiReady
    /\ pc \in {"done", "failed"}
    /\ selects < limit
    /\ shape \in ShapeNames(variant)
    /\ currentShape' = shape
    /\ targetPositions' = SelectedTarget(shape)
    /\ originalPosition' = IF variant = "spread" THEN targetPositions'
                           ELSE originalPosition
    /\ selects' = selects + 1
    /\ selectionLog' = Append(selectionLog,
                              [shape |-> shape, target |-> targetPositions'])
    /\ UNCHANGED <<guiLibrary, guiPanels, renderVars, generatorVars, rotationVars,
                   variant, randomTape, loopVars, positions,
                   spherePositions, cubePositions, spreadDirection, gestureVars,
                   currentSpread, frames, callbacks>>

SelectShape(shape) == ShapeChange(shape, MaxSelects)

Next ==
    \/ InitScene
    \/ \E constructed \in BOOLEAN : InitMediaPipe(constructed)
    \/ \E started \in BOOLEAN : CameraSettles(started)
    \/ GuiPoll
    \/ LibraryLoads
    \/ Animate
    \/ \E results \in Results : OnHandResults(results)
    \/ \E shape \in ShapeNames(variant) : SelectShape(shape)

Spec == Init /\ [][Next]_vars

\* the page with a detector that may also deliver results outside its
\* contract: nothing, an open hand, a short landmark list, landmarks without z
DetectorResults == {<<>>, <<CHOOSE h \in Hands : h.indexTip.x = R(68, 100)>>}
                       \cup MalformedResults

DetectorNext ==
    \/ InitScene
    \/ \E constructed \in BOOLEAN : InitMediaPipe(constructed)
    \/ \E started \in BOOLEAN : CameraSettles(started)
    \/ GuiPoll
    \/ LibraryLoads
    \/ Animate
    \/ \E results \in DetectorResults : OnHandResults(results)
    \/ \E shape \in ShapeNames(variant) : SelectShape(shape)

DetectorSpec == Init /\ [][DetectorNext]_vars

(***************************************************************************)
(* The shape generators called on their own, for any particle count        *)
(***************************************************************************)
\* particle counts a generator is called with: 0..MaxCount, and 0..MaxHeartCount
\* for the heart, whose loops are followed pass by pass
MaxCount == 21
MaxHeartCount == 2

CubeGenerators == {"generateCubePositions_script", "generateCubePositions_shapes",
                   "generateCubePositions_spread"}
SectionGenerators == {"generateFireworksPositions", "generateChristmasTreePositions",
                      "generateChristmasTreePositions_layers", "generatePlanetPositions"}
Generators == CubeGenerators \cup SectionGenerators \cup {"generateHeartPositions"}

\* the slots written by one loop
\*   for (let i = 0; i < limit && index < guard; i++) { positions[index * 3] = ...; index++; }
\* entered with the given index
LoopWrites(index, limit, guard) ==
    LET passes == IF limit <= 0 \/ index >= guard THEN 0
                  ELSE IF limit < guard - index THEN limit ELSE guard - index
    IN  [i \in 1..passes |-> index + i - 1]

\* the number of loops over the slots a generator runs one after another:
\* six faces, five bursts, body-star-trunk, six layers-trunk-star, sphere-ring
SectionCount(name) ==
    CASE name \in CubeGenerators -> 6
      [] name = "generateFireworksPositions" -> 5
      [] name = "generateChristmasTreePositions" -> 3
      [] name = "generateChristmasTreePositions_layers" -> 6 + 2
      [] OTHER -> 2

\* loop bounds that floor every share and give no loop the remainder
SectionLimit_noRemainder(name, section, index, count) ==
    CASE name \in CubeGenerators -> count \div 6
      [] name = "generateFireworksPositions" -> count \div 5
      [] name = "generateChristmasTreePositions" ->
            <<(count * 90) \div 100, (count * 5) \div 100, (count * 5) \div 100>>[section + 1]
      [] name = "generateChristmasTreePositions_layers" ->
            IF section < 6 THEN ((count * 87) \div 100) \div 6
            ELSE <<(count * 8) \div 100, (count * 5) \div 100>>[section - 5]
      [] OTHER -> <<(count * 6) \div 10, (count * 4) \div 10>>[section + 1]

\* the bound of the loop of one section, as the code computes it when the
\* section is entered with the given index
SectionLimit(name, section, index, count) ==
    CASE name = "generateCubePositions_script" -> count \div 6
      [] name = "generateCubePositions_shapes" ->
            IF section = 5 THEN count - index ELSE count \div 6
      [] name = "generateCubePositions_spread" ->
            CeilSqrt(count \div 6) * CeilSqrt(count \div 6)
      [] name = "generateFireworksPositions" ->
            IF section = 5 - 1 THEN count - index ELSE count \div 5
      [] name = "generateChristmasTreePositions" ->
            LET starParticles == (count * 5) \div 100
                trunkParticles == (count * 5) \div 100
                treeParticles == count - starParticles - trunkParticles
            IN  <<treeParticles, starParticles, trunkParticles>>[section + 1]
      [] name = "generateChristmasTreePositions_layers" ->
            LET starParticles == (count * 5) \div 100
                trunkParticles == (count * 8) \div 100
                treeParticles == count - starParticles - trunkParticles
            IN  IF section < 6 - 1 THEN treeParticles \div 6
                ELSE IF section = 6 - 1 THEN treeParticles - index
                ELSE <<trunkParticles, starParticles>>[section - 5]
      [] OTHER ->
            LET sphereParticles == (count * 6) \div 10
                ringParticles == count - sphereParticles
            IN  <<sphereParticles, ringParticles>>[section + 1]

\* the value the loop of a section compares index with
SectionGuard(name, section, count) ==
    IF name = "generateChristmasTreePositions_layers"
    THEN LET starParticles == (count * 5) \div 100
             trunkParticles == (count * 8) \div 100
         IN  IF section < 6 THEN count - starParticles - trunkParticles
             ELSE IF section = 6 THEN count - starParticles
             ELSE count
    ELSE count

\* the loops of a generator from the given section on: for each section the
\* bound of its loop and the slots it writes
RECURSIVE RunSections(_, _, _, _)
RunSections(name, section, index, count) ==
    IF section >= SectionCount(name) THEN <<>>
    ELSE LET limit == SectionLimit(name, section, index, count)
             slots == LoopWrites(index, limit, SectionGuard(name, section, count))
         IN  <<[limit |-> limit, slots |-> slots]>>
                 \o RunSections(name, section + 1, index + Len(slots), count)

RECURSIVE Concat(_)
Concat(seqs) == IF seqs = <<>> THEN <<>> ELSE Head(seqs) \o Concat(Tail(seqs))

\* what a generator called with (count, tape) returns or leaves in the
\* zero-filled array it is given
GeneratorResult(name, count, tape) ==
    CASE name = "generateCubePositions_script" -> generateCubePositions_script(count, tape)
      [] name = "generateCubePositions_shapes" -> generateCubePositions_shapes(count, tape)
      [] name = "generateCubePositions_spread" ->
            generateCubePositions_spread(count, SHAPE_RADIUS)
      [] name = "generateFireworksPositions" -> generateFireworksPositions(count, tape)
      [] name = "generateChristmasTreePositions" ->
            generateChristmasTreePositions(count, tape)
      [] name = "generateChristmasTreePositions_layers" ->
            generateChristmasTreePositions_layers(count, tape)
      [] OTHER -> generatePlanetPositions(count, tape)

GeneratorInit ==
    /\ PageLoad
    /\ variant = "shapes"
    /\ generatorName \in Generators
    /\ generatorCount \in 0..(IF generatorName = "generateHeartPositions"
                               THEN MaxHeartCount ELSE MaxCount)
    /\ generatorPc = "called"
    /\ generatorOutput = ZeroArray(generatorCount)
    /\ generatorLog = <<>>
    /\ generatorParts = <<>>
    /\ heartState = HeartStart(generatorCount)

\* a call of one of the cube, fireworks, tree or planet generators
Generate ==
    /\ generatorPc = "called"
    /\ generatorName \in CubeGenerators \cup SectionGenerators
    /\ LET run == RunSections(generatorName, 0, 0, generatorCount)
       IN  /\ generatorParts' = [s \in 1..Len(run) |-> run[s].limit]
           /\ generatorLog' = Concat([s \in 1..Len(run) |-> run[s].slots])
    /\ generatorOutput' = GeneratorResult(generatorName, generatorCount, randomTape)
    /\ generatorPc' = "returned"
    /\ UNCHANGED <<panelVars, rotationVars, variant, randomTape, loopVars, sceneVars, gestureVars,
                   currentShape, currentSpread, frames, callbacks, selects, generatorName,
                   generatorCount, heartState>>

\* values of Math.random() met by the loops of the heart generator: they
\* give samples inside and outside the heart, and fallback points over the
\* range of each coordinate
HeartDraws == {Zero, R(1, 3), R(1, 2), R(5, 6)}
HeartTapes == [0..(TapePeriod - 1) -> HeartDraws]

\* the condition of the rejection loop holds: a pass changes the loop state
HeartSampling == HeartTrial(heartState, generatorCount, randomTape) # heartState

\* one pass of the rejection loop of generateHeartPositions, on any draws
HeartTrialStep ==
    /\ generatorPc = "called"
    /\ generatorName = "generateHeartPositions"
    /\ HeartSampling
    /\ \E tape \in HeartTapes : heartState' = HeartTrial(heartState, generatorCount, tape)
    /\ generatorLog' = IF heartState'.index > heartState.index
                       THEN Append(generatorLog, heartState.index) ELSE generatorLog
    /\ generatorParts' = <<heartState'.iterations, 0>>
    /\ UNCHANGED <<panelVars, rotationVars, variant, randomTape, loopVars, sceneVars, gestureVars,
                   currentShape, currentSpread, frames, callbacks, selects, generatorName,
                   generatorCount, generatorPc, generatorOutput>>

\* one pass of the fallback loop, entered when the rejection loop is over
HeartFillStep ==
    /\ generatorPc \in {"called", "filling"}
    /\ generatorName = "generateHeartPositions"
    /\ ~HeartSampling
    /\ heartState.index < generatorCount
    /\ \E tape \in HeartTapes : heartState' = HeartFill(heartState, generatorCount, tape)
    /\ generatorLog' = Append(generatorLog, heartState.index)
    /\ generatorParts' = <<heartState.iterations,
                           IF generatorParts = <<>> THEN 1 ELSE generatorParts[2] + 1>>
    /\ generatorPc' = "filling"
    /\ UNCHANGED <<panelVars, rotationVars, variant, randomTape, loopVars, sceneVars, gestureVars,
                   currentShape, currentSpread, frames, callbacks, selects, generatorName,
                   generatorCount, generatorOutput>>

\* both loops are over: the array that was passed in holds the result
HeartReturn ==
    /\ generatorPc \in {"called", "filling"}
    /\ generatorName = "generateHeartPositions"
    /\ ~HeartSampling
    /\ heartState.index >= generatorCount
    /\ generatorOutput' = heartState.positions
    /\ generatorPc' = "returned"
    /\ UNCHANGED <<panelVars, rotationVars, variant, randomTape, loopVars, sceneVars, gestureVars,
                   currentShape, currentSpread, frames, callbacks, selects, generatorName,
                   generatorCount, generatorLog, generatorParts, heartState>>

GeneratorNext ==
    \/ Generate
    \/ HeartTrialStep
    \/ HeartFillStep
    \/ HeartReturn

GeneratorSpec == GeneratorInit /\ [][GeneratorNext]_vars

PointAt(array, i) == <<array[3 * i + 1], array[3 * i + 2], array[3 * i + 3]>>

(***************************************************************************)
(* Shape selection                                                         *)
(***************************************************************************)
\* C1: selecting a shape changes only the target point set: across every
\* selection step the live position buffer keeps every coordinate, and the
\* gesture values are untouched, for every shape name in every variant
SelectKeepsPositions ==
    [][selects' # selects =>
          /\ positions' = positions
          /\ dispersionFactor' = dispersionFactor
          /\ interactionFactor' = interactionFactor
          /\ currentSpread' = currentSpread]_vars

\* a selection has replaced the target while the particles were elsewhere
SelectKeepsPositions_witness ==
    /\ selects > 0
    /\ frames > 0
    /\ positions # targetPositions
    /\ targetPositions # spherePositions

(***************************************************************************)
(* Box/Sphere module: the rendered array                                   *)
(***************************************************************************)
\* C2: in the Box/Sphere module, over display frames and detector callbacks
\* (the target left as it was set up), no particle coordinate ever exceeds
\* maxDispersion times the largest target coordinate magnitude: the
\* multiplication by dispersionFactor does not compound across frames
ModuleDispersionBounded ==
    (variant = "module" /\ selects = 0 /\ frames > 0) =>
        \A k \in Indices :
            \E j \in Indices :
                RLe(RAbs(positions[k]), RMul(maxDispersion, RAbs(targetPositions[j])))

(***************************************************************************)
(* Start-up                                                                *)
(***************************************************************************)
\* C3: whatever the detector does at start-up, once init() is over the
\* animation loop has been started and a next frame is scheduled
LoopStartsRegardless ==
    pc \in {"done", "failed"} => rafScheduled

(***************************************************************************)
(* Gesture signal                                                          *)
(***************************************************************************)
\* C4: after a hand-present callback with thumb-index distance d the stored
\* value is the low end of the output range (openness 0) for d <= pinchMin
\* and the high end (openness 1) for d >= pinchMax, and of two hand-present
\* callbacks in a row the one with the larger d leaves the larger-or-equal
\* value (the mapping is monotonic non-decreasing)
GestureMapping ==
    /\ [](handDetected =>
            /\ RLe(pinchDistance, PinchMin(variant)) => GestureValue = GestureLow(variant)
            /\ RGe(pinchDistance, PinchMax(variant)) => GestureValue = GestureHigh(variant))
    /\ [][(handDetected /\ handDetected' /\ callbacks' # callbacks
             /\ RLe(pinchDistance, pinchDistance'))
           => RLe(GestureValue, GestureValue')]_vars

\* two hand-present callbacks in a row ended on a fully open hand, in a
\* script whose mid-range values lie strictly between the ends
GestureMapping_witness ==
    /\ variant = "disp"
    /\ handDetected
    /\ callbacks >= 2
    /\ RGe(pinchDistance, PinchMax(variant))
    /\ GestureValue = GestureHigh(variant)

\* C5: a no-hand callback brings the gesture value strictly closer to the
\* baseline when it is not yet there, keeps it there when it is, and never
\* takes it to the other side (script.js, Box/Sphere module, six-shape
\* script, first Sphere/Cube script)
NoHandDecay ==
    [][(variant # "spread" /\ callbacks' # callbacks /\ ~handDetected')
       => /\ GestureValue # Baseline(variant)
                => RLt(RAbs(RSub(GestureValue', Baseline(variant))),
                       RAbs(RSub(GestureValue, Baseline(variant))))
          /\ GestureValue = Baseline(variant) => GestureValue' = GestureValue
          /\ RLt(GestureValue, Baseline(variant)) => RLe(GestureValue', Baseline(variant))
          /\ RGt(GestureValue, Baseline(variant)) => RGe(GestureValue', Baseline(variant))]_vars

\* script.js after a fully open hand and two no-hand callbacks:
\* 3.0 -> 2.96 -> 2.9208
NoHandDecay_witness ==
    /\ variant = "script"
    /\ ~handDetected
    /\ dispersionFactor = R(29208, 10000)

\* C6: in the second Sphere/Cube script a no-hand callback moves
\* targetSpread toward 0: the value does not stay where the last
\* hand-present callback put it
SpreadDecays ==
    [][(variant = "spread" /\ callbacks' # callbacks /\ ~handDetected'
          /\ targetSpread # Zero)
       => RLt(targetSpread', targetSpread)]_vars

\* C7: the gesture scalar stays inside its configured output range:
\* interactionFactor in [0, 1], dispersionFactor in
\* [dispersionRange.min, dispersionRange.max] in script.js and in
\* [minDispersion, maxDispersion] in the Box/Sphere module
GestureInRange ==
    /\ RLe(GestureLow(variant), GestureValue)
    /\ RLe(GestureValue, GestureHigh(variant))

\* the Box/Sphere module after a fully open hand and a no-hand callback:
\* 3.0 -> 2.9
GestureInRange_witness ==
    /\ variant = "module"
    /\ ~handDetected
    /\ dispersionFactor = R(29, 10)

(***************************************************************************)
(* Integrator step                                                         *)
(***************************************************************************)
\* the smoothing factor of the loaded script's step
Smoothing(v) ==
    CASE v = "script" -> morphSpeed
      [] v = "module" -> morphSpeed
      [] v = "shapes" -> ANIMATION_SMOOTHING_FACTOR
      [] v = "disp"   -> lerpSpeed
      [] OTHER        -> R(5, 100)

\* a frame step taken while the hand is seen pinched at or below the minimum
PinchedFrame ==
    /\ frames' # frames
    /\ handDetected
    /\ RLe(pinchDistance, PinchMin(variant))

\* C8 as stated: at openness 0 the destination of every particle is its
\* target point, so the frame moves each coordinate by the smoothing factor
\* toward the target itself (scripts with a destination per particle)
PinchedDestinationIsTarget ==
    [][(PinchedFrame /\ variant \in {"script", "shapes", "disp"})
       => \A k \in Indices :
             positions'[k] = Lerp(positions[k], targetPositions[k], Smoothing(variant))]_vars

\* C8 amended: at openness 0 the destination is the target point in the
\* six-shape script and the first Sphere/Cube script; in script.js it is the
\* target scaled by dispersionRange.min, and the Box/Sphere module moves
\* toward the target and multiplies the result by minDispersion
PinchedDestination ==
    [][(PinchedFrame /\ variant # "spread")
       => \A k \in Indices :
             positions'[k] =
                CASE variant = "script" ->
                        Lerp(positions[k], RMul(targetPositions[k], dispersionRange.min),
                             morphSpeed)
                  [] variant = "module" ->
                        RMul(Lerp(positions[k], targetPositions[k], morphSpeed),
                             minDispersion)
                  [] OTHER ->
                        Lerp(positions[k], targetPositions[k], Smoothing(variant))]_vars

\* script.js: one frame at factor 1, a pinched hand, one more frame:
\* 0 -> 0.05 t -> 0.05 t + (0.8 t - 0.05 t) * 0.05 = 0.0875 t
PinchedDestination_witness ==
    /\ variant = "script"
    /\ handDetected
    /\ RLe(pinchDistance, PinchMin(variant))
    /\ pc # "init"
    /\ positions # targetPositions
    /\ positions = [k \in Indices |-> RMul(R(875, 10000), targetPositions[k])]

\* the frame reads a gesture value that adds no dispersion: factor 1 where
\* the value multiplies the target, 0 where it is a displacement
ZeroDispersion ==
    IF variant = "spread" THEN currentSpread = Zero /\ targetSpread = Zero
    ELSE GestureValue = Baseline(variant)

\* C9: with every position exactly on its target and no dispersion, one
\* integrator step leaves every position unchanged: for every target set the
\* program installs, and across every such frame it runs
RestIsFixed ==
    /\ [](pc # "init" =>
            FramePositions(targetPositions, Baseline(variant)) = targetPositions)
    /\ [][(frames' # frames /\ ZeroDispersion /\ positions = targetPositions)
           => positions' = positions]_vars

\* first Sphere/Cube script: the frames so far ran at rest on a selected
\* shape's target with dispersionFactor 0
RestIsFixed_witness ==
    /\ variant = "disp"
    /\ frames >= 2
    /\ ZeroDispersion
    /\ positions = targetPositions

HalfSize(name) ==
    CASE name = "generateCubePositions_script" -> Z(100)
      [] name = "generateCubePositions_shapes" -> One
      [] OTHER -> SHAPE_RADIUS

OnFace(p, halfSize) ==
    \E axis \in 1..3 :
        /\ RAbs(p[axis]) = halfSize
        /\ \A other \in (1..3) \ {axis} : RLe(RAbs(p[other]), halfSize)

CubeFillsEverySlot ==
    (generatorPc = "returned" /\ generatorName \in CubeGenerators)
        => \A i \in 0..(generatorCount - 1) :
               /\ OnFace(PointAt(generatorOutput, i), HalfSize(generatorName))
               /\ \E k \in 1..Len(generatorLog) : generatorLog[k] = i

(***************************************************************************)
(* C12: for every N >= 1 the Fireworks, Christmas tree and Planet          *)
(* generators bound their loops by sub-counts (five bursts; body, star and *)
(* trunk; sphere floor(0.6 * N) and ring) that are all non-negative and    *)
(* add up to exactly N, and they write each slot 0..N-1 exactly once.      *)
(***************************************************************************)
RECURSIVE SumSeq(_)
SumSeq(seq) == IF seq = <<>> THEN 0 ELSE Head(seq) + SumSeq(Tail(seq))

SectionsCoverSlots ==
    (generatorPc = "returned" /\ generatorName \in SectionGenerators /\ generatorCount >= 1)
        => /\ \A s \in 1..Len(generatorParts) : generatorParts[s] >= 0
           /\ SumSeq(generatorParts) = generatorCount
           /\ \A i \in 0..(generatorCount - 1) :
                  Cardinality({k \in 1..Len(generatorLog) : generatorLog[k] = i}) = 1
           /\ \A k \in 1..Len(generatorLog) : generatorLog[k] \in 0..(generatorCount - 1)

\* 21 particles in the layered tree: five layers of three, the last layer of
\* four, one trunk particle and one star particle
SectionsCoverSlots_witness ==
    /\ generatorPc = "returned"
    /\ generatorName = "generateChristmasTreePositions_layers"
    /\ generatorCount = 21
    /\ generatorParts = <<3, 3, 3, 3, 3, 4, 1, 1>>
    /\ generatorLog = [k \in 1..21 |-> k - 1]

(***************************************************************************)
(* C13: whatever the random draws, generateHeartPositions terminates: the  *)
(* rejection loop makes at most count * 100 passes, the fallback loop at   *)
(* most count further passes, every pass brings the end of the call        *)
(* nearer, and on return exactly count slots have been written.            *)
(***************************************************************************)
\* the passes the two loops can still make, plus one for the return
HeartPassesLeft ==
    (generatorCount * 100 - heartState.iterations)
        + (generatorCount - heartState.index)
        + (IF generatorPc = "returned" THEN 0 ELSE 1)

HeartTerminates ==
    /\ [](generatorName = "generateHeartPositions"
            => /\ heartState.iterations <= generatorCount * 100
               /\ generatorParts # <<>> => generatorParts[2] <= generatorCount
               /\ HeartPassesLeft >= 0
               /\ generatorPc = "returned"
                    => /\ heartState.index = generatorCount
                       /\ Len(generatorLog) = generatorCount
                       /\ \A i \in 0..(generatorCount - 1) :
                              \E k \in 1..Len(generatorLog) : generatorLog[k] = i)
    /\ [][generatorName = "generateHeartPositions" => HeartPassesLeft' < HeartPassesLeft]_vars

\* two particles: the limit of 200 passes is reached with one sample accepted,
\* and the fallback loop fills the other slot
HeartTerminates_witness ==
    /\ generatorName = "generateHeartPositions"
    /\ generatorPc = "returned"
    /\ generatorCount = 2
    /\ generatorParts = <<200, 1>>
    /\ generatorLog = <<0, 1>>

(***************************************************************************)
(* C14: every point the rejection loop of the heart generator writes is    *)
(* (x * scale, z * scale, y * scale) for one sample (x, y, z) of the       *)
(* bounding box with                                                       *)
(*   (x^2 + 9/4*y^2 + z^2 - 1)^3 - x^2*z^3 - 9/80*y^2*z^3 < 0.             *)
(***************************************************************************)
Cube(a) == RMul(a, RMul(a, a))

HeartInequality(x, y, z) ==
    RLt(RSub(RSub(Cube(RSub(RAdd(RAdd(RMul(x, x), RMul(R(9, 4), RMul(y, y))), RMul(z, z)),
                            One)),
                  RMul(RMul(x, x), Cube(z))),
             RMul(R(9, 80), RMul(RMul(y, y), Cube(z)))),
        Zero)

\* the samples the rejection loop can draw
HeartSamples ==
    { <<RSub(RMul(rx, Z(3)), R(3, 2)), RSub(RMul(ry, Z(3)), One),
        RSub(RMul(rz, Z(3)), R(3, 2))>> : rx \in HeartDraws, ry \in HeartDraws,
                                          rz \in HeartDraws }

HeartAcceptsInside ==
    [][(/\ generatorName = "generateHeartPositions"
        /\ generatorPc' = "called"
        /\ heartState'.index = heartState.index + 1)
          => \E sample \in HeartSamples :
                 /\ HeartInequality(sample[1], sample[2], sample[3])
                 /\ PointAt(heartState'.positions, heartState.index)
                        = <<RMul(sample[1], R(3, 2)), RMul(sample[3], R(3, 2)),
                            RMul(sample[2], R(3, 2))>>]_vars

\* the sample (0, 1/2, -1/2) was accepted and stored as (0, -3/4, 3/4)
HeartAcceptsInside_witness ==
    /\ generatorName = "generateHeartPositions"
    /\ generatorPc = "called"
    /\ heartState.index = 1
    /\ PointAt(heartState.positions, 0) = <<Zero, R(-3, 4), R(3, 4)>>

(***************************************************************************)
(* C15: every point the fallback loop of the heart generator writes lies   *)
(* inside the bounding box the rejection loop samples (x and z in          *)
(* [-1.5, 1.5], y in [-1, 2]), taken after the scaling by 1.5 and the      *)
(* mapping (x, z, y) of accepted points.                                   *)
(***************************************************************************)
InSampledBox(p) ==
    /\ RLe(RMul(R(-3, 2), R(3, 2)), p[1]) /\ RLe(p[1], RMul(R(3, 2), R(3, 2)))
    /\ RLe(RMul(R(-3, 2), R(3, 2)), p[2]) /\ RLe(p[2], RMul(R(3, 2), R(3, 2)))
    /\ RLe(RMul(Z(-1), R(3, 2)), p[3]) /\ RLe(p[3], RMul(Z(2), R(3, 2)))

HeartFallbackInBox ==
    [][(/\ generatorName = "generateHeartPositions"
        /\ generatorPc' = "filling")
          => InSampledBox(PointAt(heartState'.positions, heartState.index))]_vars

(***************************************************************************)
(* C16: a detector callback whose landmark data is absent or malformed     *)
(* (a hand lacking landmark 4 or 8, a landmark lacking z) raises no error  *)
(* and changes the gesture signal exactly as a no-hand callback would; no  *)
(* non-finite gesture value is stored or copied into particle positions.   *)
(***************************************************************************)
MalformedIsNoHand ==
    /\ [](/\ callbackErrors = 0
          /\ ~IsNaN(GestureValue)
          /\ \A k \in DOMAIN positions : ~IsNaN(positions[k]))
    /\ [][\A results \in MalformedResults :
              OnHandResults(results)
                  => /\ GestureValue' = NoHandValue(variant, GestureValue)
                     /\ handDetected' = (variant = "spread" /\ handDetected)]_vars

(***************************************************************************)
(* C17: when the start of the camera fails, the failure is reported to the *)
(* user exactly once through a visible message, and the camera is never    *)
(* started again during the session.                                       *)
(***************************************************************************)
CameraFailureReportedOnce ==
    /\ [](cameraState = "failed" => errorReports = 1)
    /\ [][cameraState = "failed"
            => /\ cameraState' = "failed"
               /\ errorReports' = errorReports]_vars

(***************************************************************************)
(* C18: whatever the interleaving of detector callbacks and display        *)
(* frames, a frame moves all N particles with one gesture value, the one   *)
(* the most recent callback left (the initial value if there was none); a  *)
(* frame never waits for a callback; and a hand-present callback stores a  *)
(* value that depends on the current pinch distance only.  (Scripts whose  *)
(* frame reads the variable the callback writes: script.js, Box/Sphere     *)
(* module, six-shape script, first Sphere/Cube script.)                    *)
(***************************************************************************)
\* the variable onHandResults writes
CallbackSignal ==
    CASE variant = "shapes" -> interactionFactor
      [] variant = "spread" -> targetSpread
      [] OTHER -> dispersionFactor

\* the value a hand at the given distance stands for: the position of the
\* distance in the pinch range, clamped, taken in the output range
DistanceSignal(v, distance) ==
    RAdd(GestureLow(v),
         RMul(RSub(GestureHigh(v), GestureLow(v)),
              Clamp01(RDiv(RSub(distance, PinchMin(v)), RSub(PinchMax(v), PinchMin(v))))))

MovesTowardNeutral(before, after) ==
    /\ before = Zero => after = Zero
    /\ RGt(before, Zero) => (RGe(after, Zero) /\ RLt(after, before))
    /\ RLt(before, Zero) => (RLe(after, Zero) /\ RGt(after, before))

StartsOnFirstTarget ==
    (pc # "init" /\ frames = 0 /\ selects = 0)
        => \A k \in Indices : positions[k] = targetPositions[k]

(***************************************************************************)
(* C21: once init() has built the arrays, the target point set and the     *)
(* live position buffer each hold exactly 3 * N numbers, N the particle    *)
(* count of the script; no shape selection, detector callback or display   *)
(* frame changes either length.                                            *)
(***************************************************************************)
BufferLengthsFixed ==
    /\ [](pc # "init" => /\ DOMAIN positions = 1..(3 * PARTICLE_COUNT)
                         /\ DOMAIN targetPositions = 1..(3 * PARTICLE_COUNT))
    /\ [][(selects' # selects \/ callbacks' # callbacks \/ frames' # frames)
             => /\ Len(positions') = Len(positions)
                /\ Len(targetPositions') = Len(targetPositions)]_vars

\* a selection, a callback and a frame have all run on full-length arrays
BufferLengthsFixed_witness ==
    /\ selects > 0
    /\ callbacks > 0
    /\ frames > 1
    /\ targetPositions # spherePositions
    /\ Len(positions) = 3 * PARTICLE_COUNT
    /\ Len(targetPositions) = 3 * PARTICLE_COUNT

(***************************************************************************)
(* script.js left to itself after start-up: particles at the origin, the   *)
(* sphere as target, dispersionFactor at its initial 1.0, no detector      *)
(* callback (the camera never settles).  The position buffer is a          *)
(* Float32Array, so every store rounds to the nearest float32; the         *)
(* arithmetic between two stores is exact here (double precision in the    *)
(* code).                                                                  *)
(***************************************************************************)
MaxScenarioFrames == 260

\* floor(log2 |x|), taken as 0 below 1
Exponent(x) ==
    LET q == Abs(x.n) \div x.d
    IN  IF q = 0 THEN 0 ELSE CHOOSE e \in 0..29 : q \div (2 ^ e) = 1

\* n / d (d > 0) rounded to the nearest integer, ties to the even one
RoundHalfEven(n, d) ==
    LET q == n \div d
        r == n % d
    IN  IF 2 * r < d THEN q
        ELSE IF 2 * r > d THEN q + 1
        ELSE IF q % 2 = 0 THEN q ELSE q + 1

\* a store that keeps only eight fractional bits
Fround_coarse(x) ==
    LET g == GCD(256, x.d)
    IN  IF x.n = 0 THEN Zero
        ELSE R(RoundHalfEven(x.n * (256 \div g), x.d \div g), 256)

\* the value a Float32Array slot holds after x is stored: 24 significant
\* bits, round to nearest even (values below 1 are rounded to the grid of
\* [1, 2), 2^-23; float32 is finer there)
Fround(x) ==
    LET grid == 2 ^ (23 - Exponent(x))
        g == GCD(grid, x.d)
    IN  IF x.n = 0 THEN Zero
        ELSE R(RoundHalfEven(x.n * (grid \div g), x.d \div g), grid)

\* script.js updateParticles with the rounding of positions[i3] += ...
updateParticles_script_stored(current, target, factor) ==
    LET destination == Destination_script(target, factor)
    IN  [k \in Indices |-> Fround(Lerp(current[k], destination[k], morphSpeed))]

\* script.js when initThreeJS() and initGUI() have returned
ScenarioInit ==
    /\ GeneratorIdle
    /\ variant = "script"
    /\ randomTape \in Tapes
    /\ pc = "animate"
    /\ rafScheduled = FALSE
    /\ cameraState = "off"
    /\ errorReports = 0
    /\ guiReady = TRUE
    /\ guiTimer = FALSE
    /\ guiLibrary = TRUE
    /\ selectionLog = <<>>
    /\ guiPanels = 1
    /\ particleColor = "#00ffff"
    /\ particleSize = DefaultSize("script")
    /\ positions = ZeroArray(PARTICLE_COUNT)
    /\ targetPositions = generateSpherePositions_script(PARTICLE_COUNT)
    /\ spherePositions = <<>>
    /\ cubePositions = <<>>
    /\ originalPosition = <<>>
    /\ spreadDirection = <<>>
    /\ currentShape = "sphere"
    /\ dispersionFactor = One
    /\ interactionFactor = Zero
    /\ targetSpread = Zero
    /\ currentSpread = Zero
    /\ handDetected = FALSE
    /\ pinchDistance = Zero
    /\ callbackErrors = 0
    /\ targetRotationZ = Zero
    /\ currentRotationZ = Zero
    /\ rotationY = Zero
    /\ rotationX = Zero
    /\ frames = 0
    /\ callbacks = 0
    /\ selects = 0

\* animate() of script.js, storing through the Float32Array
ScenarioFrame ==
    /\ pc = "animate" \/ (rafScheduled /\ pc = "done")
    /\ frames < MaxScenarioFrames
    /\ rafScheduled' = TRUE
    /\ pc' = IF pc = "animate" THEN "initMediaPipe" ELSE pc
    /\ positions' = updateParticles_script_stored(positions, targetPositions,
                                                  dispersionFactor)
    /\ frames' = frames + 1
    /\ rotationY' = RAdd(rotationY, RotationYStep(variant, handDetected))
    /\ rotationX' = RAdd(rotationX, RotationXStep(variant))
    /\ UNCHANGED <<panelVars, generatorVars, targetRotationZ, currentRotationZ, variant, randomTape,
                   cameraState, errorReports, guiReady, guiTimer, targetPositions,
                   spherePositions, cubePositions, originalPosition, spreadDirection,
                   gestureVars, currentShape, currentSpread, callbacks, selects>>

ScenarioNext ==
    \/ ScenarioFrame
    \/ \E constructed \in BOOLEAN : InitMediaPipe(constructed)

ScenarioSpec == ScenarioInit /\ [][ScenarioNext]_vars

(***************************************************************************)
(* C22: with all particles at the origin, the sphere as target, smoothing  *)
(* 0.05 and no dispersion, one integrator step puts every particle at 0.05 *)
(* times its target point, at distance 0.05 * radius from the origin, and  *)
(* after enough further steps every particle is within 1e-3 of its target. *)
(***************************************************************************)
\* steps after which the scenario is within the tolerance
SettledAfter == 240

\* |dx| + |dy| + |dz| between particle i and its target (at least the distance)
Offset(i) ==
    LET d(k) == RAbs(RSub(targetPositions[3 * i + k], positions[3 * i + k]))
    IN  RAdd(d(1), RAdd(d(2), d(3)))

SphereScenario ==
    /\ frames = 1 =>
          \A k \in Indices :
              /\ positions[k] = RMul(R(5, 100), targetPositions[k])
              /\ LengthAt(positions, k) = RMul(R(5, 100), Z(150))
    /\ frames >= SettledAfter =>
          \A i \in 0..(PARTICLE_COUNT - 1) : RLt(Offset(i), R(1, 1000))

\* the step that first brings every particle within the tolerance
SphereScenario_witness ==
    /\ frames = SettledAfter
    /\ positions # targetPositions
    /\ \A i \in 0..(PARTICLE_COUNT - 1) : RLt(Offset(i), R(1, 1000))

(***************************************************************************)
(* The page with its colour and size controls in use                       *)
(***************************************************************************)
Colors == {"#00ffff", "#ff0000"}

\* values the Particle Size slider can deliver (Box/Sphere module: 0.01 to
\* 0.2; six-shape script: 1 to 10); the other scripts have no size control
Sizes(v) ==
    CASE v = "module" -> {R(1, 100), R(2, 10)}
      [] v = "shapes" -> {One, Z(10)}
      [] OTHER -> {}

\* a colour change that builds the particles anew, at the origin
SetColor_rebuild(value) ==
    /\ guiReady
    /\ pc \in {"done", "failed"}
    /\ particleColor' = value
    /\ positions' = ZeroArray(PARTICLE_COUNT)
    /\ UNCHANGED <<particleSize, guiLibrary, guiPanels, selectionLog, generatorVars,
                   rotationVars,
                   variant, randomTape, loopVars, targetPositions, spherePositions,
                   cubePositions, originalPosition, spreadDirection, gestureVars,
                   currentShape, currentSpread, frames, callbacks, selects>>

\* the Particle Color control's onChange: updateParticleColor(value) in
\* script.js (every entry of the colour attribute), particleMaterial.color.set
\* in the other scripts
SetColor(value) ==
    /\ guiReady
    /\ pc \in {"done", "failed"}
    /\ particleColor' = value
    /\ UNCHANGED <<particleSize, guiLibrary, guiPanels, selectionLog, generatorVars,
                   rotationVars,
                   variant, randomTape, loopVars, sceneVars, gestureVars, currentShape,
                   currentSpread, frames, callbacks, selects>>

\* the Particle Size control's onChange
SetSize(value) ==
    /\ guiReady
    /\ pc \in {"done", "failed"}
    /\ value \in Sizes(variant)
    /\ particleSize' = IF variant = "shapes" THEN RMul(value, R(1, 100)) ELSE value
    /\ UNCHANGED <<particleColor, guiLibrary, guiPanels, selectionLog, generatorVars,
                   rotationVars,
                   variant, randomTape, loopVars, sceneVars, gestureVars, currentShape,
                   currentSpread, frames, callbacks, selects>>

\* the detector results delivered while the controls are used: no hand, or
\* an open hand
PanelResults == {<<>>, <<CHOOSE h \in Hands : h.indexTip.x = R(68, 100)>>}

PanelNext ==
    \/ InitScene
    \/ \E constructed \in BOOLEAN : InitMediaPipe(constructed)
    \/ \E started \in BOOLEAN : CameraSettles(started)
    \/ GuiPoll
    \/ LibraryLoads
    \/ Animate
    \/ \E results \in PanelResults : OnHandResults(results)
    \/ \E shape \in ShapeNames(variant) : SelectShape(shape)
    \/ \E value \in Colors : SetColor(value)
    \/ \E value \in Sizes(variant) : SetSize(value)

PanelSpec == Init /\ [][PanelNext]_vars

(***************************************************************************)
(* C23: a colour change or a particle-size change from the control panel   *)
(* leaves the live positions, the target point set, the active shape and   *)
(* the gesture signal unchanged.                                           *)
(***************************************************************************)
RenderingOnly ==
    [][(particleColor' # particleColor \/ particleSize' # particleSize)
          => /\ positions' = positions
             /\ targetPositions' = targetPositions
             /\ originalPosition' = originalPosition
             /\ currentShape' = currentShape
             /\ dispersionFactor' = dispersionFactor
             /\ interactionFactor' = interactionFactor
             /\ targetSpread' = targetSpread
             /\ currentSpread' = currentSpread]_vars

\* colour and size have both been changed while the cloud was in motion
RenderingOnly_witness ==
    /\ particleColor # "#00ffff"
    /\ particleSize # DefaultSize(variant)
    /\ callbacks > 0
    /\ frames > 1
    /\ positions # targetPositions

(***************************************************************************)
(* C24: the particle system has 4500 particles: the particle count         *)
(* constant that sizes the position buffer and bounds every generator and  *)
(* integrator loop is 4500, in whichever script is loaded.                 *)
(***************************************************************************)
\* the value each script gives its particle count constant
\* (CONFIG.particleCount / PARTICLE_COUNT); the model runs the same loops
\* with ParticleCount in its place
particleCount(v) ==
    CASE v \in {"script", "module"} -> 5000
      [] OTHER -> 4000

ParticleCountIs4500 ==
    pc # "init" => /\ particleCount(variant) = 4500
                   /\ Len(positions) = 3 * PARTICLE_COUNT

(***************************************************************************)
(* C25: while a hand is present, each display frame moves the rotation     *)
(* about Z toward the latest gesture rotation angle by a fixed fraction of *)
(* the remaining difference: it never reaches the angle in one frame from  *)
(* elsewhere and never passes it.                                          *)
(***************************************************************************)
\* `after` is `before` moved by `fraction` of the way to `goal`, which puts
\* it strictly between the two unless `before` is at the goal already
MovesByFraction(before, after, goal, fraction) ==
    /\ RSub(after, before) = RMul(fraction, RSub(goal, before))
    /\ before = goal => after = goal
    /\ RLt(before, goal) => (RGt(after, before) /\ RLt(after, goal))
    /\ RGt(before, goal) => (RLt(after, before) /\ RGt(after, goal))

OriginTarget(i) == PointAt(targetPositions, i) = <<Zero, Zero, Zero>>

\* the destinations the frame of the loaded script computes
FrameDestination ==
    IF variant = "shapes"
    THEN Destination_shapes(targetPositions, interactionFactor, randomTape)
    ELSE Destination_disp(targetPositions, dispersionFactor)

OriginStaysPut ==
    [][(variant \in {"shapes", "disp"} /\ frames' = frames + 1)
         => \A i \in 0..(PARTICLE_COUNT - 1) :
                OriginTarget(i) =>
                    \A k \in (3 * i + 1)..(3 * i + 3) :
                        /\ FrameDestination[k] = Zero
                        /\ ~IsNaN(positions'[k])
                        /\ positions'[k] =
                              RMul(positions[k], RSub(One, Smoothing(variant)))]_vars

\* first Sphere/Cube script: the cube was selected while the particles were on
\* the sphere, a cube point lies at the origin, and a frame run with the hand
\* fully open has moved its particle 0.02 of the way to the origin
OriginStaysPut_witness ==
    /\ variant = "disp"
    /\ currentShape = "Cube"
    /\ dispersionFactor = One
    /\ \E i \in 0..(PARTICLE_COUNT - 1) :
          /\ OriginTarget(i)
          /\ PointAt(positions, i) = Scale3(R(98, 100), PointAt(spherePositions, i))
          /\ PointAt(positions, i) # <<Zero, Zero, Zero>>

(***************************************************************************)
(* C27: when the integrator adds random jitter to a dispersed destination, *)
(* each of the x, y and z axes of a particle takes a jitter drawn on its   *)
(* own: three consecutive draws per displaced particle, one per axis, so   *)
(* that the three values can differ.                                       *)
(***************************************************************************)
\* particle i is displaced by the frame of the six-shape script
Displaced(i) ==
    /\ RGt(RMul(interactionFactor, dispersionStrength), R(1, 10))
    /\ RGt(LengthAt(targetPositions, 3 * i + 1), Zero)

\* the destination of slot k when every axis has a draw of its own
PerAxisDestination(k) ==
    LET i == (k - 1) \div 3
        before == Cardinality({j \in 0..(i - 1) : Displaced(j)})
        jitter == RMul(RSub(Draw(randomTape, 3 * before + ((k - 1) % 3)), R(1, 2)),
                       RANDOM_OFFSET_STRENGTH)
        radial == RMul(RDiv(targetPositions[k], LengthAt(targetPositions, k)),
                       RMul(interactionFactor, dispersionStrength))
    IN  RAdd(targetPositions[k], RAdd(radial, jitter))

JitterPerAxis ==
    [][(variant = "shapes" /\ frames' = frames + 1)
         => \A k \in Indices :
                Displaced((k - 1) \div 3) =>
                    positions'[k] = Lerp(positions[k], PerAxisDestination(k),
                                         ANIMATION_SMOOTHING_FACTOR)]_vars

(***************************************************************************)
(* The six-shape script while the hand leaves the picture: the detector    *)
(* reports what it likes for the first MaxCallbacks callbacks and no hand  *)
(* from then on                                                            *)
(***************************************************************************)
\* no-hand callbacks followed after the last hand
MaxDecayCallbacks == 51

DecayInit == Init /\ variant = "shapes"

DecayResults == IF callbacks < MaxCallbacks THEN PanelResults ELSE {<<>>}

DecayNext ==
    \/ InitScene
    \/ \E constructed \in BOOLEAN : InitMediaPipe(constructed)
    \/ \E started \in BOOLEAN : CameraSettles(started)
    \/ Animate
    \/ \E results \in DecayResults : HandResults(results, MaxCallbacks + MaxDecayCallbacks)

DecaySpec == DecayInit /\ [][DecayNext]_vars

(***************************************************************************)
(* C28: in the linear-decay script (interactionFactor starts at 1.0 and    *)
(* drops by INTERACTION_DECAY_RATE per no-hand callback, floored at 0),    *)
(* once every callback reports no hand interactionFactor becomes exactly 0 *)
(* within 50 callbacks and stays 0 until a hand is reported; from then on  *)
(* a frame applies no dispersion and no jitter, and moves every coordinate *)
(* 0.05 of the way to its target.                                          *)
(***************************************************************************)
\* no-hand callbacks that take interactionFactor from 1.0 to 0
DecaySteps == Floor(RDiv(One, INTERACTION_DECAY_RATE))

LinearDecayReachesZero ==
    /\ [](callbacks >= MaxCallbacks + DecaySteps => interactionFactor = Zero)
    /\ [][(callbacks' = callbacks + 1 /\ ~handDetected')
            => interactionFactor' = IF RLe(interactionFactor, R(2, 100)) THEN Zero
                                    ELSE RSub(interactionFactor, R(2, 100))]_vars
    /\ [][(interactionFactor = Zero /\ ~handDetected') => interactionFactor' = Zero]_vars
    /\ [][(interactionFactor = Zero /\ frames' = frames + 1)
            => \A k \in Indices :
                   positions'[k] = Lerp(positions[k], targetPositions[k], R(5, 100))]_vars

\* the first frame scattered the cloud at interactionFactor 1.0; after 50
\* no-hand callbacks two frames have each taken 0.05 off the offsets
LinearDecayReachesZero_witness ==
    LET scattered == updateParticles_shapes(targetPositions, targetPositions, One,
                                            randomTape)
    IN  /\ variant = "shapes"
        /\ callbacks = MaxCallbacks + DecaySteps
        /\ interactionFactor = Zero
        /\ frames = 3
        /\ positions # targetPositions
        /\ \A k \in Indices :
              RSub(positions[k], targetPositions[k])
                 = RMul(R(9025, 10000), RSub(scattered[k], targetPositions[k]))

(***************************************************************************)
(* The second Sphere/Cube script with its scheduling: the interval that    *)
(* initGUI() starts ticks for as long as it is active                      *)
(***************************************************************************)
PollInit == Init /\ variant = "spread"

PollSpec == PollInit /\ [][Next]_vars /\ WF_vars(GuiPoll)

(***************************************************************************)
(* C29: in the second Sphere/Cube script initGUI polls for the GUI         *)
(* library; the control panel is created at most once, the tick that       *)
(* creates it cancels the poll, so that no later tick creates a second     *)
(* panel, and once the library is there the panel is eventually created.   *)
(***************************************************************************)
PanelCreatedOnce ==
    /\ [](guiPanels <= 1)
    /\ [](pc # "init" => (guiTimer \/ guiPanels = 1))
    /\ [][guiPanels' # guiPanels
            => (guiTimer /\ guiLibrary /\ ~guiTimer' /\ guiReady')]_vars
    /\ [][(pc # "init" /\ ~guiTimer) => (~guiTimer' /\ guiPanels' = guiPanels)]_vars
    /\ ((guiTimer /\ guiLibrary) ~> (guiPanels = 1))

\* the panel exists, the poll is off, and the panel has been used while
\* frames were running
PanelCreatedOnce_witness ==
    /\ variant = "spread"
    /\ guiPanels = 1
    /\ guiReady
    /\ ~guiTimer
    /\ frames > 0
    /\ selects > 0

(***************************************************************************)
(* Repeated shape selections in the scripts that precompute both shapes    *)
(***************************************************************************)
\* shape selections explored per page load
MaxSelections == 4

\* the scripts whose start-up fills one array per shape: the Box/Sphere module
\* and the two Sphere/Cube scripts
Precomputing == {"module", "disp", "spread"}

SelectionInit == Init /\ variant \in Precomputing

SelectionNext ==
    \/ InitScene
    \/ \E constructed \in BOOLEAN : InitMediaPipe(constructed)
    \/ \E started \in BOOLEAN : CameraSettles(started)
    \/ GuiPoll
    \/ LibraryLoads
    \/ Animate
    \/ \E results \in PanelResults : OnHandResults(results)
    \/ \E shape \in ShapeNames(variant) : ShapeChange(shape, MaxSelections)

SelectionSpec == SelectionInit /\ [][SelectionNext]_vars

\* C30: in the scripts that precompute both shapes, what a selection installs
\* depends on the chosen name alone: any two selections of one name leave the
\* same target array; Sphere, the other shape, Sphere leaves the target, slot
\* for slot, that the first of the three left; and a selection of the name
\* that is already current changes neither the target nor anything else that
\* a selection writes
SelectionIsPure ==
    /\ [](\A i, j \in DOMAIN selectionLog :
            selectionLog[i].shape = selectionLog[j].shape
                => selectionLog[i].target = selectionLog[j].target)
    /\ [](\A i \in DOMAIN selectionLog :
            (/\ i + 2 \in DOMAIN selectionLog
             /\ selectionLog[i].shape = "Sphere"
             /\ selectionLog[i + 1].shape # "Sphere"
             /\ selectionLog[i + 2].shape = "Sphere")
                => \A k \in DOMAIN selectionLog[i].target :
                        selectionLog[i + 2].target[k] = selectionLog[i].target[k])
    /\ [][(selects' # selects /\ currentShape' = currentShape)
            => UNCHANGED <<sceneVars, gestureVars, currentSpread, rotationVars>>]_vars

SelectionIsPure_witness ==
    /\ variant \in Precomputing
    /\ Len(selectionLog) = 4
    /\ selectionLog[1].shape = "Sphere"
    /\ selectionLog[2].shape = "Sphere"
    /\ selectionLog[3].shape # "Sphere"
    /\ selectionLog[4].shape = "Sphere"
    /\ selectionLog[2].target = selectionLog[1].target
    /\ selectionLog[3].target # selectionLog[2].target
    /\ selectionLog[4].target = selectionLog[2].target
    /\ targetPositions = selectionLog[4].target
    /\ frames > 0

====
